---- MODULE Spec2Model ----
(***************************************************************************)
(* A model of the Perplexity client/proxy core:                            *)
(*   - Client._create_payload, Client.search, Client.search_stream         *)
(*     (src/src/perplexity_fixed.py),                                      *)
(*   - PerplexityAPI.search, search_stream, _parse_response,               *)
(*     _parse_stream_chunk (src/src/perplexity_api.py),                    *)
(*   - the profile table (src/src/perplexity_profiles.py),                 *)
(*   - the proxy's call_perplexity answer extractor (src/src/s2.py).       *)
(*                                                                         *)
(* Three specifications share the variables:                               *)
(*   Spec        one PerplexityAPI instance serving search calls;          *)
(*   SpecPayload Client._create_payload as a pure function (no files);     *)
(*   SpecProxy   s2.call_perplexity over a response text.                  *)
(***************************************************************************)
EXTENDS Integers, Sequences, FiniteSets, TLC

VARIABLES
    apiClient,   \* PerplexityAPI._client: None or "Client"
    pc,          \* position of the current search call
    call,        \* the arguments of the current search call
    enhanced,    \* enhanced_query (after profile augmentation)
    netlog,      \* the network requests issued so far by the current call, in order
    uploaded,    \* uploaded_files of _create_payload
    payload,     \* json_data posted to the stream endpoint
    arrived,     \* the raw records the transport has delivered so far
    chunks,      \* Client.search: chunks; Client.search_stream: the chunks yielded
    delivered,   \* the StreamChunks PerplexityAPI.search_stream has yielded
    clientResponse, \* response: what Client.search returned to PerplexityAPI.search
    outcome,     \* how the call ended
    conn,        \* the HTTP connection of the current call's stream request
    pbIn,        \* SpecPayload: the arguments of _create_payload
    pbOut,       \* SpecPayload: what _create_payload returned or raised
    pxIn,        \* SpecProxy: the arguments and upstream response of call_perplexity
    pxOut,       \* SpecProxy: what call_perplexity returned or raised
    completion,  \* SpecProxy: the response of the completions endpoint
    api_instance,   \* SpecCache: server.api_instance
    cachedClient,   \* SpecCache: PerplexityAPI._client of that instance
    sessions,       \* SpecCache: the client sessions constructed so far
    tasks,          \* SpecCache: the concurrent search calls
    conversation_storage, \* SpecStore: server.conversation_storage
    streams,        \* SpecStore: the requests of the streaming endpoint
    mcp,            \* SpecMcp: the current call of an MCP tool
    webhook,        \* SpecWebhook: the current call of WebhookClient.call_webhook
    decoder,        \* SpecDecode: one raw record, decoded twice, and the clock
    apiSearch,      \* SpecRest: the current request of the /api/search endpoint
    forward         \* SpecForward: the current request of an OpenAI-style proxy

vars == <<apiClient, pc, call, enhanced, netlog, uploaded, payload, arrived,
          chunks, delivered, clientResponse, outcome, conn, pbIn, pbOut, pxIn, pxOut,
          completion, api_instance, cachedClient, sessions, tasks,
          conversation_storage, streams, mcp, webhook, decoder, apiSearch, forward>>

mainVars == <<apiClient, pc, call, enhanced, netlog, uploaded, payload, arrived,
              chunks, delivered, clientResponse, outcome, conn>>
payloadVars == <<pbIn, pbOut>>
proxyVars == <<pxIn, pxOut, completion>>
cacheVars == <<api_instance, cachedClient, sessions, tasks>>
storeVars == <<conversation_storage, streams>>
toolVars == <<mcp, webhook, decoder, apiSearch, forward>>
exceptMcp == <<webhook, decoder, apiSearch, forward, mainVars, payloadVars, proxyVars, cacheVars, storeVars>>
exceptWebhook == <<mcp, decoder, apiSearch, forward, mainVars, payloadVars, proxyVars, cacheVars, storeVars>>
exceptDecoder == <<mcp, webhook, apiSearch, forward, mainVars, payloadVars, proxyVars, cacheVars, storeVars>>
exceptRest == <<mcp, webhook, decoder, forward, mainVars, payloadVars, proxyVars, cacheVars, storeVars>>
exceptForward == <<mcp, webhook, decoder, apiSearch, mainVars, payloadVars, proxyVars, cacheVars, storeVars>>

\* Python's None.
None == "<None>"

\* The number of records one stream delivers before it ends.
MaxRecords == 3
\* The number of files in one file map.
MaxFiles == 2

Last(s) == s[Len(s)]

(***************************************************************************)
(* Client._create_payload: validation and the payload                      *)
(***************************************************************************)

valid_sources == <<"web", "scholar", "social", "edgar">>

\* The dict literal of _create_payload, one entry per key: value pair in
\* source order (the literal names 'sonar' twice under 'pro').
model_preference_map ==
    << <<"auto", None, "turbo">>,
       <<"pro", None, "pplx_pro">>,
       <<"pro", "sonar", "experimental">>,
       <<"pro", "gpt-4.5", "gpt45">>,
       <<"pro", "gpt-4o", "gpt4o">>,
       <<"pro", "claude 3.7 sonnet", "claude2">>,
       <<"pro", "gemini 2.0 flash", "gemini2flash">>,
       <<"pro", "grok-2", "grok">>,
       <<"pro", "claude", "claude2">>,
       <<"pro", "gemini2flash", "gemini2flash">>,
       <<"pro", "grok4", "grok4">>,
       <<"pro", "pplx_pro", "pplx_pro">>,
       <<"pro", "sonar", "sonar">>,
       <<"pro", "gpt41", "gpt41">>,
       <<"pro", "claude37sonnetthinking", "claude37sonnetthinking">>,
       <<"pro", "o3", "o3">>,
       <<"pro", "claude45sonnet", "claude45sonnet">>,
       <<"pro", "claude45sonnetthinking", "claude45sonnetthinking">>,
       <<"pro", "gpt5", "gpt5">>,
       <<"pro", "gpt5thinking", "gpt5thinking">>,
       <<"reasoning", None, "pplx_reasoning">>,
       <<"reasoning", "r1", "r1">>,
       <<"reasoning", "o3-mini", "o3mini">>,
       <<"reasoning", "claude 3.7 sonnet", "claude37sonnetthinking">>,
       <<"deep research", None, "pplx_alpha">>,
       <<"deep research", "pplx_alpha", "pplx_alpha">>,
       <<"deep lab", None, "pplx_beta">>,
       <<"deep lab", "pplx_beta", "pplx_beta">> >>

\* mode in model_preference_map
ModeInMap(mode) ==
    \E i \in 1..Len(model_preference_map) : model_preference_map[i][1] = mode

\* model in model_preference_map[mode]
ModelInMap(mode, model) ==
    \E i \in 1..Len(model_preference_map) :
        /\ model_preference_map[i][1] = mode
        /\ model_preference_map[i][2] = model

\* model_preference_map[mode][model]: in a dict literal the last value given
\* for a key is the one kept.
PreferenceOf(mode, model) ==
    LET hits == {i \in 1..Len(model_preference_map) :
                    /\ model_preference_map[i][1] = mode
                    /\ model_preference_map[i][2] = model}
        last == CHOOSE i \in hits : \A j \in hits : j <= i
    IN  model_preference_map[last][3]

\* The modes for which _create_payload demands a model.
ModelRequiredModes == {"pro", "reasoning", "deep lab"}

NoError == [raised |-> None, what |-> None, name |-> None]
Raised(exc, what, name) == [raised |-> exc, what |-> what, name |-> name]

\* Lines 89-118 of _create_payload: the checks made before any upload, in
\* order.  sources is a sequence of source names.
ValidateArgs(mode, model, sources) ==
    IF \E i \in 1..Len(sources) :
          \A j \in 1..Len(valid_sources) : sources[i] # valid_sources[j]
    THEN Raised("PerplexityError", "invalid_source", None)
    ELSE IF ~ModeInMap(mode)
    THEN Raised("AssertionError", "invalid_mode", mode)
    ELSE IF mode \in ModelRequiredModes /\ model = None
    THEN Raised("PerplexityError", "model_required", mode)
    ELSE IF ~ModelInMap(mode, model)
    THEN Raised("AssertionError", "invalid_model", model)
    ELSE NoError

PayloadMode_concise(mode) == "concise"

\* 'mode': 'concise' if mode == 'auto' else 'copilot'
PayloadMode(mode) == IF mode = "auto" THEN "concise" ELSE "copilot"

NoFollowUp == [present |-> FALSE, backend_uuid |-> None,
               read_write_token |-> None, attachments |-> <<>>]

\* The returned dict (lines 175-224), the fields that vary.
BuildPayload(query, mode, model, sources, files_uploaded, follow_up) ==
    [query_str |-> query,
     dsl_query |-> query,
     attachments |-> files_uploaded \o
                     (IF follow_up.present THEN follow_up.attachments ELSE <<>>),
     mode |-> PayloadMode(mode),
     model_preference |-> PreferenceOf(mode, model),
     last_backend_uuid |-> IF follow_up.present THEN follow_up.backend_uuid ELSE None,
     read_write_token |-> IF follow_up.present THEN follow_up.read_write_token ELSE None,
     sources |-> sources]

NoPayload == [query_str |-> None, dsl_query |-> None, attachments |-> <<>>,
              mode |-> None, model_preference |-> None,
              last_backend_uuid |-> None, read_write_token |-> None,
              sources |-> <<>>]

\* _create_payload called with an empty file map.
CreatePayloadNoFiles(query, mode, model, sources, follow_up) ==
    LET err == ValidateArgs(mode, model, sources)
    IN  IF err.raised # None
        THEN [error |-> err, payload |-> NoPayload]
        ELSE [error |-> NoError,
              payload |-> BuildPayload(query, mode, model, sources, <<>>, follow_up)]

(***************************************************************************)
(* perplexity_profiles.py                                                  *)
(***************************************************************************)

\* The values of the SearchProfile enum.
SearchProfile ==
    {"research", "code_analysis", "troubleshooting", "documentation",
     "architecture", "security", "performance", "tutorial", "comparison",
     "trending", "best_practices", "integration", "debugging", "optimization"}

PROFILE_INSTRUCTIONS ==
    [p \in SearchProfile |->
        CASE p = "research" -> "do a detailed research on this and provide me with most recent information about this be very detailed about it also make sure u are reffering to multiple sources like this"
          [] p = "code_analysis" -> "analyze this code in detail, explain the logic, identify potential issues, suggest improvements, and provide best practices for this type of implementation"
          [] p = "troubleshooting" -> "help me troubleshoot this issue step by step, identify common causes, provide solutions, and include preventative measures for similar problems"
          [] p = "documentation" -> "provide comprehensive documentation for this, including setup instructions, usage examples, configuration options, and maintenance guidelines"
          [] p = "architecture" -> "analyze the architectural implications, discuss design patterns, scalability considerations, and provide architectural recommendations"
          [] p = "security" -> "evaluate security implications, identify vulnerabilities, suggest security measures, and provide security best practices for this context"
          [] p = "performance" -> "analyze performance characteristics, identify bottlenecks, suggest optimizations, and provide performance benchmarks and monitoring strategies"
          [] p = "tutorial" -> "create a step-by-step tutorial with clear explanations, code examples, common pitfalls, and practice exercises"
          [] p = "comparison" -> "provide detailed comparisons between alternatives, including pros and cons, use cases, and recommendations for different scenarios"
          [] p = "trending" -> "focus on the latest trends, recent developments, emerging technologies, and current best practices in this area"
          [] p = "best_practices" -> "provide industry best practices, coding standards, guidelines, and recommendations for professional implementation"
          [] p = "integration" -> "explain how to integrate this with existing systems, compatibility considerations, API requirements, and integration patterns"
          [] p = "debugging" -> "provide systematic debugging approach, common debugging techniques, tools, and methods to identify and fix issues"
          [] p = "optimization" -> "suggest specific optimizations, performance tuning strategies, resource usage improvements, and measurable enhancement techniques"]

\* str.lower() on the profile names the model supplies.
Lower(s) ==
    CASE s = "SECURITY" -> "security"
      [] s = "Research" -> "research"
      [] OTHER -> s

\* validate_profile: SearchProfile(profile_name.lower()), None on ValueError.
validate_profile(profile_name) ==
    IF Lower(profile_name) \in SearchProfile THEN Lower(profile_name) ELSE None

\* get_profile_instruction: PROFILE_INSTRUCTIONS.get(profile, "")
get_profile_instruction(profile) ==
    IF profile \in DOMAIN PROFILE_INSTRUCTIONS
    THEN PROFILE_INSTRUCTIONS[profile] ELSE ""

apply_profile_to_query_nosep(query, profile) ==
    IF profile = None THEN query
    ELSE IF get_profile_instruction(profile) = "" THEN query
    ELSE query \o get_profile_instruction(profile)

\* apply_profile_to_query: f"{query}. {profile_instruction}"
apply_profile_to_query(query, profile) ==
    IF profile = None THEN query
    ELSE IF get_profile_instruction(profile) = "" THEN query
    ELSE query \o ". " \o get_profile_instruction(profile)

\* Lines 218-227 of PerplexityAPI.search (and 321-330 of search_stream): the
\* profile argument is a string or None; "if profile:" skips None and "".
EnhancedQuery(query, profile) ==
    LET search_profile ==
            IF profile = None \/ profile = "" THEN None
            ELSE validate_profile(profile)
    IN  apply_profile_to_query(query, search_profile)

(***************************************************************************)
(* Upstream records and their decoding                                     *)
(***************************************************************************)

\* The 'answer' field of a FINAL step's content.  enc says what the field
\* holds:
\*   "absent"      the content has no 'answer' key
\*   "json_obj"    a string, the JSON text of {"answer": answer, "web_results": sources}
\*   "json_scalar" a string, the JSON text of the string answer
\*   "embedded"    a string that is no JSON text but holds the JSON text of
\*                 {"answer": answer, "web_results": sources} between other characters
\*   "plain"       a string that is no JSON text and holds no '{...}'; raw is its text
\*   "dict"        the dict {"answer": answer, "web_results": sources} itself
AnsField(enc, answer, sources, raw) ==
    [enc |-> enc, answer |-> answer, sources |-> sources, raw |-> raw]

NoAnswerField == AnsField("absent", "", <<>>, "")

Step(step_type, ans, web_results) ==
    [step_type |-> step_type, answer |-> ans, web_results |-> web_results]

\* The 'text' field of a record body as the upstream sends it:
\*   "absent"     no 'text' key
\*   "json_list"  a string, the JSON text of the list steps
\*   "plain"      a string that is no JSON text
UpText(t, steps) == [t |-> t, steps |-> steps]

\* One raw record of the stream, as split on the record delimiter.
\*   frame      the "event: ..." line the record starts with
\*   wellformed whether the text after "data: " is JSON text of a dict
RawRecord(frame, wellformed, text, backend_uuid) ==
    [frame |-> frame, wellformed |-> wellformed, text |-> text,
     backend_uuid |-> backend_uuid]

\* A decoded chunk: error is None unless the dict has an 'error' key.
Chunk(error, text, backend_uuid) ==
    [error |-> error, text |-> text, backend_uuid |-> backend_uuid]

NoChunk == Chunk(None, UpText("absent", <<>>), None)
\* Client.search raised instead of returning.
NoResponse == [returned |-> FALSE, value |-> NoChunk]

\* {"error": "Parse error", "message": str(e)}
ParseErrorChunk == Chunk("Parse error", UpText("absent", <<>>), None)

DecodeRecord_nonested(r) ==
    IF ~r.wellformed THEN ParseErrorChunk
    ELSE Chunk(None, r.text, r.backend_uuid)

\* Lines 240-254 (search) and 280-294 (search_stream): json.loads of the data
\* part, then a second json.loads of a string 'text' field whose failure
\* keeps the string.
DecodeRecord(r) ==
    IF ~r.wellformed THEN ParseErrorChunk
    ELSE Chunk(None,
               IF r.text.t = "json_list" THEN UpText("list", r.text.steps)
               ELSE r.text,
               r.backend_uuid)

(***************************************************************************)
(* PerplexityAPI._parse_response and _parse_stream_chunk                   *)
(***************************************************************************)

\* Lines 388-418: the answer and sources taken from one 'answer' field.
AnswerOf(f) ==
    CASE f.enc = "json_obj" -> [answer |-> f.answer, sources |-> f.sources]
      [] f.enc = "dict" -> [answer |-> f.answer, sources |-> f.sources]
      [] f.enc = "json_scalar" -> [answer |-> f.answer, sources |-> <<>>]
      [] f.enc = "embedded" -> [answer |-> f.answer, sources |-> f.sources]
      [] OTHER -> [answer |-> f.raw, sources |-> <<>>]

\* Lines 383-418: every FINAL step with an 'answer' key assigns answer and
\* sources; the loop has no break.
RECURSIVE ScanSteps(_, _, _)
ScanSteps(steps, i, acc) ==
    IF i > Len(steps) THEN acc
    ELSE IF steps[i].step_type = "FINAL" /\ steps[i].answer.enc # "absent"
         THEN ScanSteps(steps, i + 1, AnswerOf(steps[i].answer))
         ELSE ScanSteps(steps, i + 1, acc)

SearchResult(query, answer, sources, mode, model, backend_uuid) ==
    [query |-> query, answer |-> answer, sources |-> sources, mode |-> mode,
     model |-> model, backend_uuid |-> backend_uuid]

NoResult == SearchResult(None, "", <<>>, None, None, None)

_parse_response(query, response, mode, model) ==
    LET got == IF response.text.t = "list"
               THEN ScanSteps(response.text.steps, 1, [answer |-> "", sources |-> <<>>])
               ELSE [answer |-> "", sources |-> <<>>]
    IN  SearchResult(query, got.answer, got.sources, mode, model,
                     response.backend_uuid)

\* _parse_stream_chunk: one StreamChunk per step of a list-valued 'text'.
_parse_stream_chunk(chunk) ==
    IF chunk.text.t = "list"
    THEN [i \in 1..Len(chunk.text.steps) |->
            [step_type |-> chunk.text.steps[i].step_type,
             content |-> chunk.text.steps[i],
             raw_data |-> chunk]]
    ELSE <<>>

(***************************************************************************)
(* Text: a Python str is a sequence of one-character strings               *)
(***************************************************************************)

\* s[i:i+len(lit)] == lit
MatchAt(s, i, lit) ==
    /\ i >= 1
    /\ i + Len(lit) - 1 <= Len(s)
    /\ \A k \in 1..Len(lit) : s[i + k - 1] = lit[k]

\* The characters of a string literal, as the text the operators work on.
Chars(str) == [i \in 1..Len(str) |-> SubSeq(str, i, i)]

\* lit in s
Contains(s, lit) == \E i \in 1..Len(s) : MatchAt(s, i, lit)

\* s.startswith(lit)
StartsWith(s, lit) == MatchAt(s, 1, lit)

\* s[from:] with from counted from 1; empty when from is past the end.
From(s, from) == SubSeq(s, from, Len(s))

\* The element of a set of one element.  {F(x) : x \in {e}} computes e once
\* and gives F the value, where LET x == e would compute e at every use of x.
Only(S) == CHOOSE x \in S : TRUE

\* The least element of a set of integers that is not empty.
Min(S) == CHOOSE x \in S : \A y \in S : x <= y

\* The first index from i on where a character of s is in the set (or, with
\* inside = FALSE, is not in it); Len(s) + 1 when there is none.
FirstIn(s, i, set, inside) ==
    LET hits == {j \in i..Len(s) : (s[j] \in set) = inside}
    IN  IF hits = {} THEN Len(s) + 1 ELSE Min(hits)

\* The positions where lit occurs in s.
Occurrences(s, lit) == {j \in 1..Len(s) : MatchAt(s, j, lit)}

\* str.replace(old, new): the occurrences of old, left to right and not
\* overlapping, are replaced; occ holds the positions where old occurs.
RECURSIVE ReplaceFrom(_, _, _, _, _)
ReplaceFrom(s, i, occ, old, new) ==
    LET rest == {j \in occ : j >= i}
    IN  IF rest = {} THEN From(s, i)
        ELSE SubSeq(s, i, Min(rest) - 1) \o new
             \o ReplaceFrom(s, Min(rest) + Len(old), occ, old, new)

Replace(s, old, new) == ReplaceFrom(s, 1, Occurrences(s, old), old, new)

\* The characters str.strip() removes and the regex class \s matches.
Whitespace == {" ", "\t", "\n", "\r", "\f"}

\* str.strip()
Strip(s) ==
    LET first == FirstIn(s, 1, Whitespace, FALSE)
        tail == {d \in 0..(Len(s) - 1) : s[Len(s) - d] \notin Whitespace}
    IN  IF first > Len(s) THEN <<>> ELSE SubSeq(s, first, Len(s) - Min(tail))

\* str.split(sep): the pieces between the occurrences of sep, left to right.
RECURSIVE SplitFrom(_, _, _, _)
SplitFrom(s, i, occ, sep) ==
    LET rest == {j \in occ : j >= i}
    IN  IF rest = {} THEN <<From(s, i)>>
        ELSE <<SubSeq(s, i, Min(rest) - 1)>> \o SplitFrom(s, Min(rest) + Len(sep), occ, sep)

Split(s, sep) == SplitFrom(s, 1, Occurrences(s, sep), sep)

\* \s* at i: the index of the first character after the run of whitespace.
RECURSIVE SkipWs(_, _)
SkipWs(s, i) ==
    IF i <= Len(s) /\ s[i] \in Whitespace THEN SkipWs(s, i + 1) ELSE i

\* [^"]* at i
SkipNonQuote(s, i) == IF i > Len(s) THEN i ELSE FirstIn(s, i, {"\""}, TRUE)

(***************************************************************************)
(* json.loads and json.dumps on the JSON texts the model uses: objects,    *)
(* arrays, strings with the escapes \" \\ \/ \n \r \t, unsigned decimal   *)
(* numbers and null.  A JSON value is [k, s, items]: k its kind, s the characters  *)
(* of a string or number, items the members of an object (key, val) or the *)
(* elements of an array.                                                   *)
(***************************************************************************)

JStr(chars) == [k |-> "str", s |-> chars, items |-> <<>>]
JNum(chars) == [k |-> "num", s |-> chars, items |-> <<>>]
JNull == [k |-> "null", s |-> <<>>, items |-> <<>>]
JObj(members) == [k |-> "obj", s |-> <<>>, items |-> members]
JArr(elements) == [k |-> "arr", s |-> <<>>, items |-> elements]

JFail == [ok |-> FALSE, val |-> JNull, pos |-> 0]
JOk(val, pos) == [ok |-> TRUE, val |-> val, pos |-> pos]

JsonWs == {" ", "\t", "\n", "\r"}
Digits == {"0", "1", "2", "3", "4", "5", "6", "7", "8", "9"}
\* Characters a JSON string may not hold unescaped (strict decoding).
ControlChars == {"\n", "\r", "\t", "\f"}

RECURSIVE SkipJsonWs(_, _)
SkipJsonWs(s, i) ==
    IF i <= Len(s) /\ s[i] \in JsonWs THEN SkipJsonWs(s, i + 1) ELSE i

\* The index of the first character from i on that is not a digit.
SkipDigits(s, i) == IF i > Len(s) THEN i ELSE FirstIn(s, i, Digits, FALSE)

\* The character an escape letter stands for; "" for an escape that is none.
Unescaped(c) ==
    CASE c = "\"" -> "\""
      [] c = "\\" -> "\\"
      [] c = "/" -> "/"
      [] c = "n" -> "\n"
      [] c = "r" -> "\r"
      [] c = "t" -> "\t"
      [] OTHER -> ""

\* The body of a string, from the character after the opening quote: the
\* plain characters up to the next quote, backslash or control character are
\* taken as they are.
RECURSIVE ParseStringBody(_, _, _)
ParseStringBody(s, i, acc) ==
    LET j == FirstIn(s, i, ControlChars \cup {"\"", "\\"}, TRUE)
        got == acc \o SubSeq(s, i, j - 1)
    IN  IF i > Len(s) \/ j > Len(s) THEN JFail
        ELSE IF s[j] = "\"" THEN JOk(JStr(got), j + 1)
        ELSE IF s[j] = "\\"
             THEN IF j + 1 > Len(s) \/ Unescaped(s[j + 1]) = "" THEN JFail
                  ELSE ParseStringBody(s, j + 2, Append(got, Unescaped(s[j + 1])))
        ELSE JFail

RECURSIVE ParseValue(_, _)
RECURSIVE ParseMembers(_, _, _)
RECURSIVE ParseElements(_, _, _)

\* The members of an object from the opening quote of a key at i.
ParseMembers(s, i, acc) ==
    IF i > Len(s) \/ s[i] # "\"" THEN JFail
    ELSE Only({
        IF ~key.ok \/ SkipJsonWs(s, key.pos) > Len(s) \/ s[SkipJsonWs(s, key.pos)] # ":"
        THEN JFail
        ELSE Only({
            IF ~v.ok \/ SkipJsonWs(s, v.pos) > Len(s) THEN JFail
            ELSE IF s[SkipJsonWs(s, v.pos)] = "}"
                 THEN JOk(JObj(Append(acc, [key |-> key.val.s, val |-> v.val])),
                          SkipJsonWs(s, v.pos) + 1)
            ELSE IF s[SkipJsonWs(s, v.pos)] = ","
                 THEN ParseMembers(s, SkipJsonWs(s, SkipJsonWs(s, v.pos) + 1),
                                   Append(acc, [key |-> key.val.s, val |-> v.val]))
            ELSE JFail
            : v \in {ParseValue(s, SkipJsonWs(s, SkipJsonWs(s, key.pos) + 1))}})
        : key \in {ParseStringBody(s, i + 1, <<>>)}})

\* The elements of an array from the first character of an element at i.
ParseElements(s, i, acc) ==
    Only({
        IF ~v.ok \/ SkipJsonWs(s, v.pos) > Len(s) THEN JFail
        ELSE IF s[SkipJsonWs(s, v.pos)] = "]"
             THEN JOk(JArr(Append(acc, v.val)), SkipJsonWs(s, v.pos) + 1)
        ELSE IF s[SkipJsonWs(s, v.pos)] = ","
             THEN ParseElements(s, SkipJsonWs(s, SkipJsonWs(s, v.pos) + 1),
                                Append(acc, v.val))
        ELSE JFail
        : v \in {ParseValue(s, i)}})

\* The JSON value that starts at i.
ParseValue(s, i) ==
    IF i > Len(s) THEN JFail
    ELSE IF s[i] = "\"" THEN ParseStringBody(s, i + 1, <<>>)
    ELSE IF s[i] = "{"
         THEN LET j == SkipJsonWs(s, i + 1)
              IN  IF j <= Len(s) /\ s[j] = "}" THEN JOk(JObj(<<>>), j + 1)
                  ELSE ParseMembers(s, j, <<>>)
    ELSE IF s[i] = "["
         THEN LET j == SkipJsonWs(s, i + 1)
              IN  IF j <= Len(s) /\ s[j] = "]" THEN JOk(JArr(<<>>), j + 1)
                  ELSE ParseElements(s, j, <<>>)
    ELSE IF s[i] \in Digits
         THEN LET e == SkipDigits(s, i)
                  f == IF e + 1 <= Len(s) /\ s[e] = "." /\ s[e + 1] \in Digits
                       THEN SkipDigits(s, e + 1)
                       ELSE e
              IN  JOk(JNum(SubSeq(s, i, f - 1)), f)
    ELSE IF MatchAt(s, i, <<"n", "u", "l", "l">>) THEN JOk(JNull, i + 4)
    ELSE JFail

\* json.loads(s): ok is FALSE where it raises JSONDecodeError.
JsonLoads(s) ==
    Only({IF r.ok /\ SkipJsonWs(s, r.pos) = Len(s) + 1 THEN r ELSE JFail
          : r \in {ParseValue(s, SkipJsonWs(s, 1))}})

\* dict.get(key, default) on an object: the last member with the key.
JGet(obj, key, default) ==
    LET hits == {i \in 1..Len(obj.items) : obj.items[i].key = key}
    IN  IF hits = {} THEN default
        ELSE obj.items[CHOOSE i \in hits : \A j \in hits : j <= i].val

\* bool(v)
Truthy(v) ==
    CASE v.k = "str" -> v.s # <<>>
      [] v.k = "num" -> \E i \in 1..Len(v.s) : v.s[i] # "0"
      [] v.k = "null" -> FALSE
      [] OTHER -> v.items # <<>>

\* The escape json.dumps writes for a character that needs one.
Escaped(c) ==
    CASE c = "\"" -> <<"\\", "\"">>
      [] c = "\\" -> <<"\\", "\\">>
      [] c = "\n" -> <<"\\", "n">>
      [] c = "\r" -> <<"\\", "r">>
      [] OTHER -> <<"\\", "t">>

\* The text json.dumps writes between the quotes for a string.
RECURSIVE JsonEscape(_, _)
JsonEscape(chars, i) ==
    LET j == FirstIn(chars, i, {"\"", "\\", "\n", "\r", "\t"}, TRUE)
    IN  IF i > Len(chars) THEN <<>>
        ELSE IF j > Len(chars) THEN From(chars, i)
        ELSE SubSeq(chars, i, j - 1) \o Escaped(chars[j]) \o JsonEscape(chars, j + 1)

\* json.dumps(str)
JsonDumpsStr(chars) == <<"\"">> \o JsonEscape(chars, 1) \o <<"\"">>

\* n spaces
RECURSIVE Spaces(_)
Spaces(n) == IF n = 0 THEN <<>> ELSE <<" ">> \o Spaces(n - 1)

\* The line break json.dumps puts before an item at the nesting level: none
\* without indent, a newline and indent * level spaces with indent.
Break(indent, level) ==
    IF indent = 0 THEN <<>> ELSE <<"\n">> \o Spaces(indent * level)

\* The separator between items: ", " without indent, "," with indent.
ItemSep(indent) == IF indent = 0 THEN <<",", " ">> ELSE <<",">>

RECURSIVE JsonDumpsValue(_, _, _)
RECURSIVE JsonDumpsItems(_, _, _, _, _)

\* The items of an object (isObj) or an array, from item i on.
JsonDumpsItems(items, i, isObj, indent, level) ==
    IF i > Len(items) THEN <<>>
    ELSE (IF i > 1 THEN ItemSep(indent) ELSE <<>>)
         \o Break(indent, level)
         \o (IF isObj
             THEN JsonDumpsStr(items[i].key) \o <<":", " ">>
                  \o JsonDumpsValue(items[i].val, indent, level)
             ELSE JsonDumpsValue(items[i], indent, level))
         \o JsonDumpsItems(items, i + 1, isObj, indent, level)

\* json.dumps of a value at a nesting level.
JsonDumpsValue(v, indent, level) ==
    CASE v.k = "str" -> JsonDumpsStr(v.s)
      [] v.k = "num" -> v.s
      [] v.k = "null" -> <<"n", "u", "l", "l">>
      [] v.k = "obj" ->
           IF v.items = <<>> THEN <<"{", "}">>
           ELSE <<"{">> \o JsonDumpsItems(v.items, 1, TRUE, indent, level + 1)
                \o Break(indent, level) \o <<"}">>
      [] OTHER ->
           IF v.items = <<>> THEN <<"[", "]">>
           ELSE <<"[">> \o JsonDumpsItems(v.items, 1, FALSE, indent, level + 1)
                \o Break(indent, level) \o <<"]">>

\* json.dumps(v) and json.dumps(v, indent=indent, ensure_ascii=False)
JsonDumps(v, indent) == JsonDumpsValue(v, indent, 0)

\* One member of an object.
Member(key, val) == [key |-> Chars(key), val |-> val]

(***************************************************************************)
(* Spec: search calls on one PerplexityAPI instance                        *)
(***************************************************************************)

Apis == {"search", "search_stream"}
Queries == {"2+2", ""}
Profiles == {None, "research", "SECURITY", "bogus"}
Modes == {"auto", "pro", "deep lab", "bogus"}
Models == {None, "sonar", "bogus"}
FileNames == <<"a.txt", "b.png", "c.pdf">>
FileMaps ==
    {SubSeq(FileNames, 1, n) :
        n \in 0..(IF MaxFiles < Len(FileNames) THEN MaxFiles ELSE Len(FileNames))}

FinalStep(answer) ==
    Step("FINAL", AnsField("json_obj", answer, <<"src-nested">>, ""), <<>>)
ResultsStep == Step("SEARCH_RESULTS", NoAnswerField, <<"src-1", "src-2">>)

RecFinal == RawRecord("message", TRUE, UpText("json_list", <<FinalStep("4")>>), "uuid-1")
RecResults == RawRecord("message", TRUE, UpText("json_list", <<ResultsStep>>), "uuid-1")
RecBad == RawRecord("message", FALSE, UpText("absent", <<>>), None)
RecOther == RawRecord("other", TRUE, UpText("absent", <<>>), None)
RecEnd == RawRecord("end_of_stream", TRUE, UpText("absent", <<>>), None)
\* One record whose 'text' lists two FINAL steps with different answers.
RecTwoFinals ==
    RawRecord("message", TRUE, UpText("json_list", <<FinalStep("4"), FinalStep("5")>>),
              "uuid-1")

\* One record whose 'text' lists a SEARCH_RESULTS step and then a FINAL step.
RecResultsThenFinal ==
    RawRecord("message", TRUE, UpText("json_list", <<ResultsStep, FinalStep("4")>>),
              "uuid-1")

\* What the upstream may send before the stream ends.
UpstreamRecords ==
    {RecFinal, RecResults, RecBad, RecOther, RecTwoFinals, RecResultsThenFinal}

\* The status codes the stream POST is answered with, and the body text of
\* each answer.
StreamStatuses == {200, 204, 503}
ResponseBody(status_code) ==
    IF status_code = 503 THEN "Service Unavailable" ELSE ""

\* f"HTTP Error {resp.status_code}: {resp.text}"
HttpErrorMessage(status_code) ==
    "HTTP Error " \o ToString(status_code) \o ": " \o ResponseBody(status_code)

\* The timeout argument of PerplexityAPI.search, in seconds; search_stream
\* has no such parameter.
Timeouts == {None, "60.0"}

\* The outcomes of one file's upload (lines 124-173).
UploadOutcomes == {"ok", "url_request_failed", "post_failed", "normalise_failed"}

\* 'image/upload' in file_upload_info['s3_object_url']
IsImageUpload(filename) == filename = "b.png"

\* uploaded_url: the rewritten secure_url of an image, else s3_object_url.
UploadedUrl(filename) ==
    IF IsImageUpload(filename) THEN "secure_url:" \o filename
    ELSE "s3_object_url:" \o filename

\* One request of the call and how the transport answered it.
Req(op, name, result) ==
    [op |-> op, name |-> name, result |-> result, status_code |-> 0]
\* The stream POST and the status code of its answer.
StreamReq(status_code) ==
    [op |-> "stream", name |-> None,
     result |-> IF status_code = 200 THEN "ok" ELSE "http_error",
     status_code |-> status_code]

NoCall == [api |-> None, query |-> None, mode |-> None, model |-> None,
           profile |-> None, files |-> <<>>, timeout |-> None]

Pending == [kind |-> "pending", error |-> NoError, result |-> NoResult]
Returned(r) == [kind |-> "result", error |-> NoError, result |-> r]
\* PerplexityAPIError raised to the caller; error is what it wraps.
Failed(err) == [kind |-> "error", error |-> err, result |-> NoResult]
\* The async generator of search_stream is exhausted.
StreamEnded == [kind |-> "stream_end", error |-> NoError, result |-> NoResult]
\* CancelledError (or GeneratorExit) went through the call: it is a
\* BaseException, which no "except Exception" of the call catches.
Cancelled == [kind |-> "cancelled", error |-> NoError, result |-> NoResult]

IdleMain ==
    /\ pc = "idle"
    /\ call = NoCall
    /\ enhanced = None
    /\ netlog = <<>>
    /\ uploaded = <<>>
    /\ payload = NoPayload
    /\ arrived = <<>>
    /\ chunks = <<>>
    /\ delivered = <<>>
    /\ clientResponse = NoResponse
    /\ outcome = Pending
    /\ conn = "none"

NoPbIn == [query |-> None, mode |-> None, model |-> None, sources |-> <<>>,
           follow_up |-> NoFollowUp]
NoPbOut == [done |-> FALSE, error |-> NoError, payload |-> NoPayload]

IdlePayload == pbIn = NoPbIn /\ pbOut = NoPbOut

\* What call_perplexity gives its caller.
ProxyResult(kind, status_code, answer, path, detail) ==
    [kind |-> kind, status_code |-> status_code, answer |-> answer, path |-> path,
     detail |-> detail]

NoProxyResult == ProxyResult("none", 0, JNull, None, None)

\* The form before the proxy has built one.
NoForm ==
    [query |-> "", mode |-> "", model_preference |-> "", incognito |-> "",
     continue_chat |-> "", raw_response |-> "", language |-> "", sources |-> "",
     profile |-> None]

\* The state of the loop over the events: the answer variable (a JSON value,
\* the empty string at first), the path that last assigned it, whether the
\* loop has been left by break, and whether an exception other than
\* JSONDecodeError has been raised.
LoopState(answer, path, stopped, raised) ==
    [answer |-> answer, path |-> path, stopped |-> stopped, raised |-> raised]

LoopStart == LoopState(JStr(<<>>), None, FALSE, None)

\* The proxy before a call.  prompt and messages are those of the request
\* (/v1/completions has a prompt, /v1/chat/completions has messages and
\* calls with continue_chat set), query the query made of them, events the
\* events the server wrote, full_response their text, data the data strings
\* taken from it, next the index of the data string the loop is at.
NoProxyCall ==
    [phase |-> "idle", prompt |-> "", messages |-> <<>>,
     query |-> "", profile |-> None, continue_chat |-> FALSE,
     form |-> NoForm, status_code |-> 0, events |-> <<>>, full_response |-> <<>>,
     data |-> <<>>, next |-> 1, loop |-> LoopStart]

\* The completions endpoint before it has answered.
NoCompletion ==
    [status_code |-> 0, text |-> JNull, prompt_tokens |-> 0, completion_tokens |-> 0,
     total_tokens |-> 0]

IdleProxy == pxIn = NoProxyCall /\ pxOut = NoProxyResult /\ completion = NoCompletion

\* The concurrent calls of SpecCache and the ids of the client sessions; 0
\* stands for None.
MaxTasks == 3
Tasks == 1..MaxTasks
NoClient == 0
\* One call: its position, the API instance get_api gave it, and the client
\* it constructs or was given.
IdleTask == [pc |-> "idle", api |-> NoClient, client |-> NoClient]

IdleCache ==
    /\ api_instance = NoClient
    /\ cachedClient = NoClient
    /\ sessions = 0
    /\ tasks = [t \in Tasks |-> IdleTask]

\* The requests of SpecStore.
MaxStreams == 2
Streams == 1..MaxStreams
NoTokens == [backend_uuid |-> None, read_write_token |-> None]
IdleStream ==
    [pc |-> "idle", conversation |-> None, continue_chat |-> FALSE, profile |-> None,
     follow_up |-> NoTokens, sent |-> NoTokens, written |-> <<>>]

IdleStore ==
    /\ conversation_storage = NoTokens
    /\ streams = [r \in Streams |-> IdleStream]

\* No tool has been called.
NoToolResponse == [kind |-> "none", message |-> ""]
IdleMcp ==
    [pc |-> "idle", facade |-> None, tool |-> None, mode |-> None, model |-> None,
     profile |-> None, search_profile |-> None, searches |-> 0,
     response |-> NoToolResponse]

NoWebhookResponse == [status_code |-> -1, error |-> None]
IdleWebhook ==
    [pc |-> "idle", method |-> None, body |-> None, content_type |-> None,
     attempt |-> 0, requests |-> 0, sleeps |-> <<>>, last_error |-> None,
     response |-> NoWebhookResponse, analysed |-> FALSE]

NoRestResponse == [status_code |-> 0, detail |-> ""]
IdleRest ==
    [pc |-> "idle", mode |-> None, model_preference |-> None, profile |-> None,
     follow_up |-> NoFollowUp, follow_up_dict |-> NoFollowUp, search_profile |-> None,
     payload |-> NoPayload, response |-> NoRestResponse]

IdleForward ==
    [pc |-> "idle", proxy |-> None, endpoint |-> None, model |-> None, mode |-> None,
     model_preference |-> None, continue_chat |-> None, rejected |-> FALSE]

NoDecoding == [done |-> FALSE, chunk |-> NoChunk, stream_chunks |-> <<>>]
IdleDecoder ==
    [clock |-> 0, record |-> RecEnd, first |-> NoDecoding, second |-> NoDecoding]

IdleTools ==
    /\ mcp = IdleMcp
    /\ webhook = IdleWebhook
    /\ decoder = IdleDecoder
    /\ apiSearch = IdleRest
    /\ forward = IdleForward

Init ==
    /\ apiClient = None
    /\ IdleMain
    /\ IdlePayload
    /\ IdleProxy
    /\ IdleCache
    /\ IdleStore
    /\ IdleTools

\* PerplexityAPI.search / search_stream up to the await of _get_client
\* (lines 207-227, 310-330).
StartSearch ==
    /\ pc = "idle"
    /\ \E api \in Apis, query \in Queries, mode \in Modes, model \in Models,
          profile \in Profiles, files \in FileMaps, timeout \in Timeouts :
          /\ api = "search_stream" => timeout = None
          /\ call' = [api |-> api, query |-> query, mode |-> mode,
                      model |-> model, profile |-> profile, files |-> files,
                      timeout |-> timeout]
          /\ enhanced' = EnhancedQuery(query, profile)
    /\ pc' = "get_client"
    /\ netlog' = <<>>
    /\ uploaded' = <<>>
    /\ payload' = NoPayload
    /\ arrived' = <<>>
    /\ chunks' = <<>>
    /\ delivered' = <<>>
    /\ clientResponse' = NoResponse
    /\ outcome' = Pending
    /\ conn' = "none"
    /\ UNCHANGED <<apiClient, payloadVars, proxyVars, cacheVars, storeVars, toolVars>>

\* PerplexityAPI._get_client: the first call awaits Client(cookies), whose
\* __ainit__ sends GET /api/auth/session (perplexity_fixed.py lines 39-84); a
\* failure of that request is caught and printed.
GetClient ==
    /\ pc = "get_client"
    /\ IF apiClient = None
       THEN /\ apiClient' = "Client"
            /\ netlog' = Append(netlog, Req("session", None, "ok"))
       ELSE UNCHANGED <<apiClient, netlog>>
    /\ pc' = "create_payload"
    /\ UNCHANGED <<call, enhanced, uploaded, payload, arrived, chunks,
                   delivered, clientResponse, outcome, conn, payloadVars, proxyVars, cacheVars, storeVars, toolVars>>

\* _create_payload lines 89-118.  It runs outside the try of Client.search and
\* of Client.search_stream, so what it raises reaches PerplexityAPI, which
\* wraps it in PerplexityAPIError.
ValidatePayload ==
    /\ pc = "create_payload"
    /\ LET err == ValidateArgs(call.mode, call.model, <<"web">>)
       IN  IF err.raised # None
           THEN /\ outcome' = Failed(err)
                /\ pc' = "done"
           ELSE /\ outcome' = outcome
                /\ pc' = "upload"
    /\ UNCHANGED <<apiClient, call, enhanced, netlog, uploaded, payload,
                   arrived, chunks, delivered, clientResponse, conn, payloadVars, proxyVars, cacheVars, storeVars, toolVars>>

\* The requests one upload attempt has sent when it ends with outcome o.
UploadRequests(filename, o) ==
    CASE o = "url_request_failed" ->
            <<Req("create_upload_url", filename, "failed")>>
      [] o = "post_failed" ->
            <<Req("create_upload_url", filename, "ok"),
              Req("s3_upload", filename, "failed")>>
      [] o = "normalise_failed" ->
            <<Req("create_upload_url", filename, "ok"),
              Req("s3_upload", filename, "no_secure_url")>>
      [] OTHER ->
            <<Req("create_upload_url", filename, "ok"),
              Req("s3_upload", filename, "ok")>>

UploadFile_continue ==
    /\ pc = "upload"
    /\ Len(uploaded) < Len(call.files)
    /\ LET filename == call.files[Len(uploaded) + 1]
       IN  \E o \in UploadOutcomes :
             /\ o = "normalise_failed" => IsImageUpload(filename)
             /\ netlog' = netlog \o UploadRequests(filename, o)
             /\ uploaded' = Append(uploaded, UploadedUrl(filename))
    /\ UNCHANGED <<apiClient, pc, outcome, call, enhanced, payload, arrived,
                   chunks, delivered, clientResponse, conn, payloadVars, proxyVars, cacheVars, storeVars, toolVars>>

\* One iteration of the loop over files.items() (lines 123-173): any
\* exception of the iteration is re-raised as PerplexityError("Failed to
\* upload file {filename}: ...").
UploadFile ==
    /\ pc = "upload"
    /\ Len(uploaded) < Len(call.files)
    /\ LET filename == call.files[Len(uploaded) + 1]
       IN  \E o \in UploadOutcomes :
             /\ o = "normalise_failed" => IsImageUpload(filename)
             /\ netlog' = netlog \o UploadRequests(filename, o)
             /\ IF o = "ok"
                THEN /\ uploaded' = Append(uploaded, UploadedUrl(filename))
                     /\ UNCHANGED <<pc, outcome>>
                ELSE /\ outcome' = Failed(Raised("PerplexityError", "upload_failed", filename))
                     /\ pc' = "done"
                     /\ UNCHANGED uploaded
    /\ UNCHANGED <<apiClient, call, enhanced, payload, arrived, chunks,
                   delivered, clientResponse, conn, payloadVars, proxyVars, cacheVars, storeVars, toolVars>>

StatusAccepted_any(status_code) == TRUE

\* Lines 232 and 273: if resp.status_code != 200: raise
StatusAccepted(status_code) == status_code = 200

\* The return of _create_payload and the stream POST (lines 175-233, 269-274).
\* In search a status other than 200 raises inside the try and is re-raised
\* as "Search request failed"; in search_stream it is yielded as a
\* 'Stream failed' chunk, which PerplexityAPI.search_stream raises.
\* The response's body is left to be read as a stream when the status is 200;
\* otherwise resp.text reads it to its end.
OpenStream ==
    /\ pc = "upload"
    /\ Len(uploaded) = Len(call.files)
    /\ payload' = BuildPayload(enhanced, call.mode, call.model, <<"web">>,
                               uploaded, NoFollowUp)
    /\ \E status_code \in StreamStatuses :
         /\ netlog' = Append(netlog, StreamReq(status_code))
         /\ IF StatusAccepted(status_code)
            THEN /\ pc' = "reading"
                 /\ conn' = "open"
                 /\ UNCHANGED <<outcome, chunks>>
            ELSE /\ pc' = "done"
                 /\ conn' = "closed"
                 /\ IF call.api = "search"
                    THEN /\ outcome' = Failed(Raised("PerplexityError", "http_status",
                                                     "Search request failed: "
                                                        \o HttpErrorMessage(status_code)))
                         /\ UNCHANGED chunks
                    ELSE /\ outcome' = Failed(Raised("PerplexityAPIError", "Stream failed",
                                                     "Stream error: "
                                                        \o HttpErrorMessage(status_code)))
                         /\ chunks' = Append(chunks,
                                             Chunk("Stream failed", UpText("absent", <<>>), None))
    /\ UNCHANGED <<apiClient, call, enhanced, uploaded, arrived, delivered,
                   clientResponse, payloadVars, proxyVars, cacheVars, storeVars, toolVars>>

\* One iteration of "async for chunk in resp.aiter_lines(...)" on a record
\* that is not the end-of-stream record.  search appends the decoded message
\* to chunks; search_stream yields it to PerplexityAPI.search_stream, which
\* raises on a chunk with an 'error' key and otherwise yields its StreamChunks.
ReadRecord ==
    /\ pc = "reading"
    /\ Len(arrived) < MaxRecords
    /\ \E r \in UpstreamRecords :
         /\ arrived' = Append(arrived, r)
         /\ IF r.frame # "message"
            THEN UNCHANGED <<chunks, delivered, outcome, pc>>
            ELSE LET c == DecodeRecord(r)
                 IN  /\ chunks' = Append(chunks, c)
                     /\ IF call.api = "search"
                        THEN UNCHANGED <<delivered, outcome, pc>>
                        ELSE IF c.error # None
                        THEN /\ outcome' = Failed(Raised("PerplexityAPIError", c.error, None))
                             /\ pc' = "done"
                             /\ UNCHANGED delivered
                        ELSE /\ delivered' = delivered \o _parse_stream_chunk(c)
                             /\ UNCHANGED <<outcome, pc>>
    /\ UNCHANGED <<apiClient, call, enhanced, netlog, uploaded, payload,
                   clientResponse, conn, payloadVars, proxyVars, cacheVars, storeVars, toolVars>>

ClientSearchReturn_first(cs) ==
    IF cs = <<>> THEN NoResponse ELSE [returned |-> TRUE, value |-> Head(cs)]

\* Client.search lines 259-262: chunks[-1], or PerplexityError("No response
\* received from the API") when chunks is empty.
ClientSearchReturn(cs) ==
    IF cs = <<>> THEN NoResponse ELSE [returned |-> TRUE, value |-> Last(cs)]

\* PerplexityAPI.search lines 249-266: what the call makes of the response.
ApiSearchOutcome(resp, c) ==
    IF ~resp.returned
    THEN Failed(Raised("PerplexityError", "no_response", None))
    ELSE IF resp.value.error # None
    THEN Failed(Raised("PerplexityAPIError", resp.value.error, None))
    ELSE Returned(_parse_response(c.query, resp.value, c.mode, c.model))

\* The loop over the records has ended.
FinishCall ==
    /\ pc' = "done"
    /\ IF call.api = "search"
       THEN /\ clientResponse' = ClientSearchReturn(chunks)
            /\ outcome' = ApiSearchOutcome(ClientSearchReturn(chunks), call)
       ELSE /\ clientResponse' = clientResponse
            /\ outcome' = StreamEnded
    /\ UNCHANGED <<apiClient, call, enhanced, netlog, uploaded, payload,
                   chunks, delivered, payloadVars, proxyVars, cacheVars, storeVars, toolVars>>

EndOfStream_continue ==
    /\ pc = "reading"
    /\ Len(arrived) < MaxRecords
    /\ arrived' = Append(arrived, RecEnd)
    /\ UNCHANGED <<apiClient, pc, call, enhanced, netlog, uploaded, payload, chunks,
                   delivered, clientResponse, outcome, conn, payloadVars, proxyVars,
                   cacheVars, storeVars, toolVars>>

\* The "event: end_of_stream" record is read: break / return.  Nothing
\* closes resp; the connection is closed by then only if the upstream has
\* ended the response.
EndOfStream ==
    /\ pc = "reading"
    /\ arrived' = Append(arrived, RecEnd)
    /\ conn' \in {"open", "closed"}
    /\ FinishCall

\* The transport closes without an end-of-stream record: the loop runs out.
CloseStream ==
    /\ pc = "reading"
    /\ arrived' = arrived
    /\ conn' = "closed"
    /\ FinishCall

\* The caller's task is cancelled, or the generator of search_stream is
\* closed, while the read of the next record is pending.  Neither Client
\* method has a finally clause or a call that closes resp.
Cancel ==
    /\ pc = "reading"
    /\ pc' = "cancelled"
    /\ outcome' = Cancelled
    /\ UNCHANGED <<apiClient, call, enhanced, netlog, uploaded, payload, arrived,
                   chunks, delivered, clientResponse, conn, payloadVars, proxyVars,
                   cacheVars, storeVars, toolVars>>

\* The caller is back and may call the same instance again.
NextCall ==
    /\ pc \in {"done", "cancelled"}
    /\ pc' = "idle"
    /\ conn' = "none"
    /\ call' = NoCall
    /\ enhanced' = None
    /\ netlog' = <<>>
    /\ uploaded' = <<>>
    /\ payload' = NoPayload
    /\ arrived' = <<>>
    /\ chunks' = <<>>
    /\ delivered' = <<>>
    /\ clientResponse' = NoResponse
    /\ outcome' = Pending
    /\ UNCHANGED <<apiClient, payloadVars, proxyVars, cacheVars, storeVars, toolVars>>

Next ==
    \/ StartSearch
    \/ GetClient
    \/ ValidatePayload
    \/ UploadFile
    \/ OpenStream
    \/ ReadRecord
    \/ EndOfStream
    \/ CloseStream
    \/ Cancel
    \/ NextCall

Spec == Init /\ [][Next]_vars

(***************************************************************************)
(* Claims checked under Spec                                               *)
(***************************************************************************)

\* The current call was rejected by the (mode, model) checks of _create_payload.
RejectedPair ==
    /\ pc = "done"
    /\ outcome.kind = "error"
    /\ outcome.error.what \in {"invalid_mode", "model_required", "invalid_model"}

HasRequest(op) == \E i \in 1..Len(netlog) : netlog[i].op = op

\* C1: a search whose (mode, model) pair is not accepted is rejected with no
\* network request issued by the call: no session, upload or stream request.
C1_RejectedBeforeAnyRequest == RejectedPair => netlog = <<>>

\* The profile tag of the current call names no profile.
UnknownProfile ==
    /\ call.profile # None
    /\ call.profile # ""
    /\ Lower(call.profile) \notin SearchProfile

\* C4: a search given an unknown profile tag never sends the stream request.
C4_UnknownProfileIsRejected == UnknownProfile => ~HasRequest("stream")

\* The instruction the profile tag of the current call stands for.
InstructionOfCall == PROFILE_INSTRUCTIONS[Lower(call.profile)]

KnownProfile ==
    /\ call.profile # None
    /\ call.profile # ""
    /\ Lower(call.profile) \in SearchProfile

\* C5: with a known profile the payload's query_str and dsl_query are the
\* original query, ". " and the profile's instruction; with no profile they
\* are the original query; the SearchResult carries the original query.
C5_ProfileAugmentation ==
    /\ (HasRequest("stream") /\ KnownProfile) =>
          /\ payload.query_str = call.query \o ". " \o InstructionOfCall
          /\ payload.dsl_query = call.query \o ". " \o InstructionOfCall
    /\ (HasRequest("stream") /\ call.profile = None) =>
          /\ payload.query_str = call.query
          /\ payload.dsl_query = call.query
    /\ outcome.kind = "result" => outcome.result.query = call.query

C5_Witness ==
    /\ pc = "done"
    /\ outcome.kind = "result"
    /\ call.profile = "SECURITY"
    /\ call.query = "2+2"
    /\ Len(payload.query_str) > Len(call.query) + 2

\* The upload requests of the current call that did not give a usable answer.
FailedUploadRequests ==
    {i \in 1..Len(netlog) :
        /\ netlog[i].op \in {"create_upload_url", "s3_upload"}
        /\ netlog[i].result # "ok"}

\* C6: when the upload of one file of several fails, the call fails with an
\* error naming that file, and the failing request is the last request of
\* the call: no later file is uploaded, the failed upload is not attempted
\* again, and the stream request is never sent.
C6_UploadFailureAborts ==
    \A i \in FailedUploadRequests :
        /\ pc = "done"
        /\ outcome.kind = "error"
        /\ outcome.error.what = "upload_failed"
        /\ outcome.error.name = netlog[i].name
        /\ i = Len(netlog)
        /\ ~HasRequest("stream")

C6_Witness ==
    /\ FailedUploadRequests # {}
    /\ Len(call.files) = 2
    /\ Len(uploaded) = 0
    /\ outcome.error.name = "a.txt"
    /\ HasRequest("s3_upload")

\* The message records among those that have arrived, in arrival order.
IsMessage(r) == r.frame = "message"
ArrivedMessages == SelectSeq(arrived, IsMessage)

\* What decoding a record is to give: the placeholder for an unparseable
\* body, else the dict with a JSON-encoded 'text' replaced by its value.
ExpectedChunk(r) ==
    IF ~r.wellformed THEN Chunk("Parse error", UpText("absent", <<>>), None)
    ELSE Chunk(None,
               IF r.text.t = "json_list" THEN UpText("list", r.text.steps) ELSE r.text,
               r.backend_uuid)

\* C7: Client.search returns the last message record decoded before the
\* stream ended and nothing else; Client.search_stream yields every message
\* record once, in arrival order.
C7_LastRecordAndEveryRecord ==
    /\ (call.api = "search" /\ clientResponse.returned) =>
          /\ ArrivedMessages # <<>>
          /\ clientResponse.value = ExpectedChunk(Last(ArrivedMessages))
    /\ (call.api = "search_stream" /\ pc \in {"reading", "done"}
            /\ HasRequest("stream") /\ arrived # <<>>) =>
          /\ Len(chunks) = Len(ArrivedMessages)
          /\ \A i \in 1..Len(chunks) : chunks[i] = ExpectedChunk(ArrivedMessages[i])

C7_Witness ==
    /\ call.api = "search"
    /\ clientResponse.returned
    /\ Len(ArrivedMessages) = 3
    /\ ArrivedMessages[1] = RecFinal
    /\ ArrivedMessages[3] = RecResults

\* Some message record that has arrived could not be decoded.
BadRecordArrived == \E i \in 1..Len(arrived) : IsMessage(arrived[i]) /\ ~arrived[i].wellformed

\* C8: in a streaming search a record that fails to decode does not end the
\* stream with an error.
C8_DecodeFailureNeverAborts ==
    (call.api = "search_stream" /\ BadRecordArrived) => outcome.kind # "error"

\* The last message record is a well-formed FINAL record with a non-empty
\* nested answer, and an unparseable record arrived before it.
BadThenFinal ==
    /\ ArrivedMessages # <<>>
    /\ LET r == Last(ArrivedMessages)
       IN  /\ r.wellformed
           /\ r.text.t = "json_list"
           /\ r.text.steps # <<>>
           /\ Last(r.text.steps).step_type = "FINAL"
           /\ Last(r.text.steps).answer.enc = "json_obj"
           /\ Last(r.text.steps).answer.answer # ""
    /\ \E i \in 1..(Len(ArrivedMessages) - 1) : ~ArrivedMessages[i].wellformed

\* C9: an unparseable record before the well-formed FINAL record that ends
\* the stream does not stop the search from returning the FINAL answer.
C9_FinalAfterBadRecord ==
    (call.api = "search" /\ pc = "done" /\ BadThenFinal) =>
        /\ outcome.kind = "result"
        /\ outcome.result.answer = Last(Last(ArrivedMessages).text.steps).answer.answer

C9_Witness ==
    /\ call.api = "search"
    /\ pc = "done"
    /\ BadThenFinal
    /\ outcome.result.answer = "4"

(***************************************************************************)
(* SpecPayload: Client._create_payload on every (mode, model) pair         *)
(***************************************************************************)

\* Every mode and every model name of the table, and one unknown of each.
AllModes == {model_preference_map[i][1] : i \in 1..Len(model_preference_map)} \cup {"bogus"}
AllModels == {model_preference_map[i][2] : i \in 1..Len(model_preference_map)} \cup {"bogus"}
SourceLists == {<<"web">>, <<"web", "scholar">>, <<"edgar", "social">>, <<"web", "bogus">>}
FollowUps ==
    {NoFollowUp,
     [present |-> TRUE, backend_uuid |-> "uuid-1", read_write_token |-> "token-1",
      attachments |-> <<"s3_object_url:old.txt">>]}

InitPayload ==
    /\ apiClient = None
    /\ IdleMain
    /\ IdleProxy
    /\ IdleCache
    /\ IdleStore
    /\ IdleTools
    /\ pbOut = NoPbOut
    /\ \E mode \in AllModes, model \in AllModels, sources \in SourceLists,
          follow_up \in FollowUps :
          pbIn = [query |-> "2+2", mode |-> mode, model |-> model,
                  sources |-> sources, follow_up |-> follow_up]

\* await client._create_payload(query, mode, model, sources, {}, follow_up, ...)
CallCreatePayload ==
    /\ ~pbOut.done
    /\ LET r == CreatePayloadNoFiles(pbIn.query, pbIn.mode, pbIn.model,
                                     pbIn.sources, pbIn.follow_up)
       IN  pbOut' = [done |-> TRUE, error |-> r.error, payload |-> r.payload]
    /\ UNCHANGED <<pbIn, mainVars, proxyVars, cacheVars, storeVars, toolVars>>

NextPayload == CallCreatePayload

SpecPayload == InitPayload /\ [][NextPayload]_vars

\* The (mode, model) pair of the call is a key pair of the table.
PairInTable ==
    \E i \in 1..Len(model_preference_map) :
        /\ model_preference_map[i][1] = pbIn.mode
        /\ model_preference_map[i][2] = pbIn.model

SourcesValid ==
    \A i \in 1..Len(pbIn.sources) : pbIn.sources[i] \in {"web", "scholar", "social", "edgar"}

PayloadReturned == pbOut.done /\ pbOut.error.raised = None

\* C2 as stated: a payload is returned exactly for the pairs of the table.
C2_ReturnsIffInTable ==
    (pbOut.done /\ SourcesValid) => (PayloadReturned <=> PairInTable)

\* The value the dict built from the literal holds for the pair: the value of
\* the last entry of the literal with that key.
IsTableValue(v) ==
    \E i \in 1..Len(model_preference_map) :
        /\ model_preference_map[i] = <<pbIn.mode, pbIn.model, v>>
        /\ \A j \in (i + 1)..Len(model_preference_map) :
              ~(model_preference_map[j][1] = pbIn.mode /\ model_preference_map[j][2] = pbIn.model)

\* C2 amended: a payload is returned exactly for the pairs of the table whose
\* model is given, or whose mode is auto or deep research; its
\* model_preference is the table's value for the pair and its mode field is
\* 'concise' exactly for mode auto, else 'copilot'.
C2_ReturnsIffInTableWithModel ==
    (pbOut.done /\ SourcesValid) =>
        /\ PayloadReturned <=>
              (PairInTable /\ ~(pbIn.model = None /\ pbIn.mode \in {"pro", "reasoning", "deep lab"}))
        /\ PayloadReturned =>
              /\ IsTableValue(pbOut.payload.model_preference)
              /\ (pbOut.payload.mode = "concise") <=> (pbIn.mode = "auto")
              /\ pbOut.payload.mode \in {"concise", "copilot"}

C2_Witness ==
    /\ PayloadReturned
    /\ pbIn.mode = "pro"
    /\ pbIn.model = "sonar"
    /\ pbOut.payload.model_preference = "sonar"
    /\ pbOut.payload.mode = "copilot"

\* C3: a model not listed for a known mode fails with the error kind of a
\* missing required model (PerplexityError), and no payload is produced.
C3_UnlistedModelSameErrorKind ==
    (pbOut.done /\ SourcesValid /\ ModeInMap(pbIn.mode) /\ ~PairInTable) =>
        /\ pbOut.error.raised = "PerplexityError"
        /\ pbOut.payload = NoPayload

(***************************************************************************)
(* SpecProxy: s2.call_perplexity, the proxy's call of the search server's  *)
(* streaming endpoint and the extraction of the answer from its response.  *)
(* The response is text, handled character by character; its events are in *)
(* the format the server's stream endpoint writes.                         *)
(***************************************************************************)

MaxEvents == 2

\* The acceptance thresholds of the two text-recovery paths.
RegexMinLen == 10
ScrapeMinLen == 50

\* The event terminator the server writes: the four characters \n\n, two
\* backslashes and two letters n, not two newlines.
EventEnd == Chars("\\n\\n")
DataPrefix == Chars("data: ")
DoneText == Chars("[DONE]")

\* yield f"data: {json.dumps(chunk_data, indent=2, ensure_ascii=False)}\\n\\n"
\* for chunk_data = {'type': 'chunk', 'data': {step_type, content, timestamp}}
ChunkEvent(step_type, content, timestamp) ==
    DataPrefix
    \o JsonDumps(JObj(<<Member("type", JStr(Chars("chunk"))),
                       Member("data", JObj(<<Member("step_type", JStr(step_type)),
                                             Member("content", content),
                                             Member("timestamp", timestamp)>>))>>), 2)
    \o EventEnd

\* yield f"data: {json.dumps({'type': 'status', 'data': {'status': status_msg}})}\\n\\n"
StatusEvent(status_msg) ==
    DataPrefix
    \o JsonDumps(JObj(<<Member("type", JStr(Chars("status"))),
                       Member("data", JObj(<<Member("status", JStr(status_msg))>>))>>), 0)
    \o EventEnd

\* yield "data: [DONE]\\n\\n"
DoneEvent == DataPrefix \o DoneText \o EventEnd

\* The data strings of the response: the blocks between blank lines that
\* start with 'data: ', stripped, after the literal \n and \r of the response
\* are turned into line breaks and the line endings are normalised.
RECURSIVE DataStrings(_, _)
DataStrings(blocks, i) ==
    IF i > Len(blocks) THEN <<>>
    ELSE LET block == Strip(blocks[i])
         IN  (IF block # <<>> /\ StartsWith(block, DataPrefix)
              THEN <<Strip(From(block, Len(DataPrefix) + 1))>>
              ELSE <<>>)
             \o DataStrings(blocks, i + 1)

Events(full_response) ==
    LET decoded_response ==
            Replace(Replace(full_response, Chars("\\n"), <<"\n">>), Chars("\\r"), <<"\r">>)
        normalized_response ==
            Replace(Replace(decoded_response, <<"\r", "\n">>, <<"\n">>), <<"\r">>, <<"\n">>)
    IN  DataStrings(Split(normalized_response, <<"\n", "\n">>), 1)

\* '"step_type": "FINAL"', the text that marks a FINAL event.
FinalMarker == Chars("\"step_type\": \"FINAL\"")

NoMatch == [found |-> FALSE, group |-> <<>>]

\* "answer":\s*"{\s*\\"answer\\":\s*\\"([^"]*(?:\\"[^"]*)*) at position i.
\* The group takes the longest run of characters that are not a quote; the
\* repetition after it would need a quote at a place where the run has just
\* ended on one preceded by a backslash it has already taken, so it never
\* adds anything.
AnswerPatternAt(s, i) ==
    LET j == SkipWs(s, i + 9)
        k == SkipWs(s, j + 2)
        l == SkipWs(s, k + 11)
    IN  IF /\ MatchAt(s, i, Chars("\"answer\":"))
           /\ MatchAt(s, j, Chars("\"{"))
           /\ MatchAt(s, k, Chars("\\\"answer\\\":"))
           /\ MatchAt(s, l, Chars("\\\""))
        THEN [found |-> TRUE, group |-> SubSeq(s, l + 2, SkipNonQuote(s, l + 2) - 1)]
        ELSE NoMatch

\* re.search(answer_pattern, s, re.DOTALL): the match at the leftmost start
\* position that has one.
AnswerPatternSearch(s) ==
    LET starts == {i \in 1..Len(s) : AnswerPatternAt(s, i).found}
    IN  IF starts = {} THEN NoMatch ELSE AnswerPatternAt(s, Min(starts))

\* "answer":\s*"[^"]*"([^"]+) at position i.
BroaderPatternAt(s, i) ==
    LET j == SkipWs(s, i + 9)
        e == SkipNonQuote(s, j + 1)
        f == SkipNonQuote(s, e + 1)
    IN  IF /\ MatchAt(s, i, Chars("\"answer\":"))
           /\ MatchAt(s, j, <<"\"">>)
           /\ e <= Len(s)
           /\ f > e + 1
        THEN [found |-> TRUE, group |-> SubSeq(s, e + 1, f - 1)]
        ELSE NoMatch

\* re.search(broader_pattern, s, re.DOTALL)
BroaderPatternSearch(s) ==
    LET starts == {i \in 1..Len(s) : BroaderPatternAt(s, i).found}
    IN  IF starts = {} THEN NoMatch ELSE BroaderPatternAt(s, Min(starts))

\* The replacements made on the text the answer pattern captured, in the
\* order they are made.  Those of \u escapes by characters outside ASCII
\* are left out; the four kept write ', ", " and a space.
AnswerReplacements ==
    <<<<Chars("\\\""), <<"\"">>>>, <<Chars("\\\\"), <<"\\">>>>,
      <<Chars("\\n"), <<"\n">>>>, <<Chars("\\t"), <<"\t">>>>,
      <<Chars("\\r"), <<"\r">>>>, <<Chars("\\/"), <<"/">>>>,
      <<Chars("\\u2019"), <<"'">>>>, <<Chars("\\u201c"), <<"\"">>>>,
      <<Chars("\\u201d"), <<"\"">>>>, <<Chars("\\u2018"), <<"'">>>>,
      <<Chars("\\u00a0"), <<" ">>>>>>

\* The chain of replace() calls from the i-th on, then strip().
RECURSIVE CleanAnswer(_, _)
CleanAnswer(raw_answer, i) ==
    IF i > Len(AnswerReplacements) THEN Strip(raw_answer)
    ELSE Only({CleanAnswer(r, i + 1)
               : r \in {Replace(raw_answer, AnswerReplacements[i][1],
                                AnswerReplacements[i][2])}})

\* re.sub(r'[{}",\\]', ' ', s)
BlankArtifacts(s) ==
    [i \in 1..Len(s) |-> IF s[i] \in {"{", "}", "\"", ",", "\\"} THEN " " ELSE s[i]]

\* re.sub(r'\s+', ' ', s)
RECURSIVE CollapseWs(_, _)
CollapseWs(s, i) ==
    LET j == FirstIn(s, i, Whitespace, TRUE)
    IN  IF i > Len(s) THEN <<>>
        ELSE IF j > Len(s) THEN From(s, i)
        ELSE SubSeq(s, i, j - 1) \o <<" ">> \o CollapseWs(s, SkipWs(s, j))

CleanContent(raw_content) == Strip(CollapseWs(BlankArtifacts(raw_content), 1))

\* The structured path on one event: json.loads of the event, and for a chunk
\* event whose step_type is FINAL json.loads of its content's answer; get()
\* on a value that is not an object raises AttributeError and json.loads of
\* a value that is not a string raises TypeError.
StructuredStep(data_str, st) ==
    Only({
        LET data == JGet(chunk.val, "data", JObj(<<>>))
            final_content == JGet(data, "content", JObj(<<>>))
            answer_json_str == JGet(final_content, "answer", JStr(<<>>))
        IN  IF ~chunk.ok THEN st
            ELSE IF chunk.val.k # "obj" THEN [st EXCEPT !.raised = "AttributeError"]
            ELSE IF JGet(chunk.val, "type", JNull) # JStr(Chars("chunk")) THEN st
            ELSE IF data.k # "obj" THEN [st EXCEPT !.raised = "AttributeError"]
            ELSE IF JGet(data, "step_type", JNull) # JStr(Chars("FINAL")) THEN st
            ELSE IF final_content.k # "obj" THEN [st EXCEPT !.raised = "AttributeError"]
            ELSE IF ~Truthy(answer_json_str) THEN st
            ELSE IF answer_json_str.k # "str" THEN [st EXCEPT !.raised = "TypeError"]
            ELSE Only({
                IF ~answer_data.ok THEN st
                ELSE IF answer_data.val.k # "obj"
                     THEN [st EXCEPT !.raised = "AttributeError"]
                ELSE LoopState(JGet(answer_data.val, "answer", JStr(<<>>)), "structured",
                               Truthy(JGet(answer_data.val, "answer", JStr(<<>>))), None)
                : answer_data \in {JsonLoads(answer_json_str.s)}})
        : chunk \in {JsonLoads(data_str)}})

\* The body of the loop for one event: for an event that holds the FINAL
\* marker the answer pattern, then the broader pattern, and then, for every
\* event that has not left the loop, the structured path.
ProcessEvent(data_str, st) ==
    IF data_str = DoneText THEN [st EXCEPT !.stopped = TRUE]
    ELSE IF ~Contains(data_str, FinalMarker) THEN StructuredStep(data_str, st)
    ELSE Only({
        IF match.found /\ answer # <<>> /\ Len(answer) > RegexMinLen
        THEN LoopState(JStr(answer), "regex", TRUE, None)
        ELSE IF broader_match.found /\ Len(clean_content) > ScrapeMinLen
        THEN LoopState(JStr(clean_content), "scrape", TRUE, None)
        ELSE StructuredStep(data_str,
                            IF match.found THEN LoopState(JStr(answer), "regex", FALSE, None)
                            ELSE st)
        : match \in {AnswerPatternSearch(data_str)},
          answer \in {CleanAnswer(AnswerPatternSearch(data_str).group, 1)},
          broader_match \in {BroaderPatternSearch(data_str)},
          clean_content \in {CleanContent(BroaderPatternSearch(data_str).group)}})

\* The query the proxy posts: the profile applied where the tag is known.
ProxyEnhancedQuery(query, profile) ==
    IF profile # None /\ validate_profile(profile) # None
    THEN apply_profile_to_query(query, validate_profile(profile))
    ELSE query

\* The form the proxy posts to the search server.
FormData(query, mode, continue_chat, profile) ==
    [query |-> ProxyEnhancedQuery(query, profile), mode |-> mode,
     model_preference |-> "", incognito |-> "false",
     continue_chat |-> IF continue_chat THEN "true" ELSE "false",
     raw_response |-> "false", language |-> "en-US", sources |-> "web",
     profile |-> profile]

(* The inputs of SpecProxy *)

\* The nested JSON text of an upstream answer.
NestedAnswer(answer) ==
    JsonDumps(JObj(<<Member("answer", JStr(answer)), Member("web_results", JArr(<<>>))>>), 0)

Timestamp == JNum(Chars("1.5"))

\* A text longer than the scrape threshold.
LongText == Chars("lorem ipsum dolor sit amet consectetur adipiscing elit sed do")

\* The answers upstream gives: shorter than, and longer than, the regex
\* threshold, empty, and one with quotes inside.
UpstreamAnswers ==
    {Chars("4"), Chars("hello world"), <<>>, Chars("say \"hi\"")}

\* The content of a FINAL step whose answer field is nested JSON.
FinalContent(answer) == JObj(<<Member("answer", JStr(NestedAnswer(answer)))>>)

\* The kinds of event in a response.  The FINAL events hold an answer field
\* that is nested JSON ("final"), nested JSON cut off inside the answer
\* ("cut"), or plain text with a quotation ("plain").
EventKinds ==
    [kind : {"final"}, answer : UpstreamAnswers]
    \cup [kind : {"cut", "plain", "results", "done"}, answer : {<<>>}]

EventText(ev) ==
    CASE ev.kind = "final" ->
           ChunkEvent(Chars("FINAL"), FinalContent(ev.answer), Timestamp)
      [] ev.kind = "cut" ->
           ChunkEvent(Chars("FINAL"),
                      JObj(<<Member("answer", JStr(Chars("{\"answer\": \"hi")))>>),
                      Timestamp)
      [] ev.kind = "plain" ->
           ChunkEvent(Chars("FINAL"),
                      JObj(<<Member("answer", JStr(Chars("As noted: \"") \o LongText))>>),
                      Timestamp)
      [] ev.kind = "results" ->
           ChunkEvent(Chars("SEARCH_RESULTS"), JObj(<<>>), Timestamp)
      [] OTHER -> DoneEvent

\* The responses: the opening status event and up to MaxEvents events.
RECURSIVE EventSeqs(_)
EventSeqs(n) ==
    IF n = 0 THEN {<<>>}
    ELSE EventSeqs(n - 1)
         \cup {Append(es, ev) : es \in {x \in EventSeqs(n - 1) : Len(x) = n - 1},
                                ev \in EventKinds}

RECURSIVE ConcatEvents(_, _)
ConcatEvents(es, i) ==
    IF i > Len(es) THEN <<>> ELSE EventText(es[i]) \o ConcatEvents(es, i + 1)

ResponseText(es) ==
    StatusEvent(Chars("Processing 0 files...")) \o ConcatEvents(es, 1)

ProxyQueries == {"2+2"}

\* The messages of a chat request: one user message, and a conversation with
\* an assistant message that has tool calls and no content.
ChatMessage(role, content) == [role |-> role, content |-> content]
ChatMessageLists ==
    {<<ChatMessage("user", "2+2")>>,
     <<ChatMessage("system", "be brief"), ChatMessage("assistant", ""),
       ChatMessage("user", "2+2")>>}

\* s2.format_messages_as_query: the non-empty contents joined by "\n".
RECURSIVE JoinContents(_, _, _)
JoinContents(messages, i, acc) ==
    IF i > Len(messages) THEN acc
    ELSE IF messages[i].content = "" THEN JoinContents(messages, i + 1, acc)
    ELSE JoinContents(messages, i + 1,
                      IF acc = None THEN messages[i].content
                      ELSE acc \o "\n" \o messages[i].content)

format_messages_as_query(messages) ==
    IF JoinContents(messages, 1, None) = None THEN ""
    ELSE JoinContents(messages, 1, None)
ProxyProfiles == {None, "research", "bogus"}
StatusCodes == {200, 503}

InitProxy ==
    /\ apiClient = None
    /\ IdleMain
    /\ IdlePayload
    /\ IdleProxy
    /\ IdleCache
    /\ IdleStore
    /\ IdleTools

\* The endpoint's request, the query made of it (s2.py lines 443, 503), and
\* call_perplexity up to the post of the form.
ProxyPost ==
    /\ pxIn.phase = "idle"
    /\ \E prompt \in ProxyQueries, messages \in ChatMessageLists,
          profile \in ProxyProfiles, continue_chat \in BOOLEAN :
          \E query \in {IF continue_chat THEN format_messages_as_query(messages)
                        ELSE prompt} :
             pxIn' = [pxIn EXCEPT !.phase = "posted",
                                  !.prompt = IF continue_chat THEN "" ELSE prompt,
                                  !.messages = IF continue_chat THEN messages ELSE <<>>,
                                  !.query = query, !.profile = profile,
                                  !.continue_chat = continue_chat,
                                  !.form = FormData(query, "auto", continue_chat, profile)]
    /\ UNCHANGED <<pxOut, completion, mainVars, payloadVars, cacheVars, storeVars, toolVars>>

\* The response arrives: raise_for_status(), then the data strings of the
\* events are taken from its text.
ProxyReceive ==
    /\ pxIn.phase = "posted"
    /\ \E status_code \in StatusCodes, es \in EventSeqs(MaxEvents) :
          IF status_code # 200
          THEN /\ pxIn' = [pxIn EXCEPT !.phase = "done", !.status_code = status_code]
               /\ pxOut' = ProxyResult("HTTPException", status_code, JNull, None,
                                       "Perplexity API error")
          ELSE \E full_response \in {ResponseText(es)} :
                  /\ pxIn' = [pxIn EXCEPT !.phase = "extracting",
                                          !.status_code = status_code, !.events = es,
                                          !.full_response = full_response,
                                          !.data = Events(full_response)]
                  /\ pxOut' = pxOut
    /\ UNCHANGED <<completion, mainVars, payloadVars, cacheVars, storeVars, toolVars>>

\* The loop has ended: every data string is taken, or the loop was left.
LoopEnded ==
    \/ pxIn.next > Len(pxIn.data)
    \/ pxIn.loop.stopped
    \/ pxIn.loop.raised # None

\* One turn of the loop over the data strings.
ProxyEvent ==
    /\ pxIn.phase = "extracting"
    /\ ~LoopEnded
    /\ pxIn' = [pxIn EXCEPT !.next = pxIn.next + 1,
                            !.loop = ProcessEvent(pxIn.data[pxIn.next], pxIn.loop)]
    /\ UNCHANGED <<pxOut, completion, mainVars, payloadVars, cacheVars, storeVars, toolVars>>

\* After the loop: the answer variable is returned, ValueError is raised
\* when it is empty; every exception becomes HTTPException with status 500.
ProxyReturn ==
    /\ pxIn.phase = "extracting"
    /\ LoopEnded
    /\ pxIn' = [pxIn EXCEPT !.phase = "done"]
    /\ pxOut' = IF pxIn.loop.raised # None
                THEN ProxyResult("HTTPException", 500, JNull, None, pxIn.loop.raised)
                ELSE IF ~Truthy(pxIn.loop.answer)
                THEN ProxyResult("HTTPException", 500, JNull, None,
                                 "No valid answer found in the response")
                ELSE ProxyResult("returned", 200, pxIn.loop.answer, pxIn.loop.path, None)
    /\ UNCHANGED <<completion, mainVars, payloadVars, cacheVars, storeVars, toolVars>>

\* The classes of character the encoding's splitting pattern tells apart.
LetterChars == Chars("abcdefghijklmnopqrstuvwxyzABCDEFGHIJKLMNOPQRSTUVWXYZ")
Letters == {LetterChars[i] : i \in 1..Len(LetterChars)}

CharClass(c) ==
    IF c \in Letters THEN "letter"
    ELSE IF c \in Digits THEN "digit"
    ELSE IF c \in Whitespace THEN "space"
    ELSE "other"

\* encoding.encode(text), as far as its length goes: the text is split into
\* runs of one class of character, a run of letters, digits or punctuation
\* taking the white space before it, and each piece counts as one token.
\* The merges of the byte-pair encoding inside a piece are left out.
TokenStarts(text) ==
    {i \in 1..Len(text) :
        \/ i = 1
        \/ /\ CharClass(text[i]) # CharClass(text[i - 1])
           /\ CharClass(text[i - 1]) # "space"}

\* s2.count_tokens: len(encoding.encode(text))
count_tokens(text) == Cardinality(TokenStarts(text))

PromptCounted_enhanced(query, enhanced_query) == enhanced_query

\* The text count_tokens is given for the prompt (s2.py lines 457, 517): the
\* query made of the request, not the enhanced query call_perplexity posts.
PromptCounted(query, enhanced_query) == query

\* completions / chat_completions after call_perplexity: an HTTPException
\* goes through; otherwise the usage is counted and the response built.
\* count_tokens of an answer that is no string raises TypeError.
CompletionsResponse ==
    /\ pxIn.phase = "done"
    /\ completion = NoCompletion
    /\ completion' =
          IF pxOut.kind # "returned"
          THEN [NoCompletion EXCEPT !.status_code = pxOut.status_code]
          ELSE IF pxOut.answer.k # "str"
          THEN [NoCompletion EXCEPT !.status_code = 500]
          ELSE Only({[status_code |-> 200,
                      text |-> pxOut.answer,
                      prompt_tokens |-> prompt_tokens,
                      completion_tokens |-> completion_tokens,
                      total_tokens |-> prompt_tokens + completion_tokens]
                     : prompt_tokens \in
                          {count_tokens(Chars(PromptCounted(pxIn.query, pxIn.form.query)))},
                       completion_tokens \in {count_tokens(pxOut.answer.s)}})
    /\ UNCHANGED <<pxIn, pxOut, mainVars, payloadVars, cacheVars, storeVars, toolVars>>

NextProxy ==
    ProxyPost \/ ProxyReceive \/ ProxyEvent \/ ProxyReturn \/ CompletionsResponse

SpecProxy == InitProxy /\ [][NextProxy]_vars

\* The FINAL events of the response that the loop can reach: those with no
\* [DONE] event before them.
ReachedFinals ==
    {i \in 1..Len(pxIn.events) :
        /\ pxIn.events[i].kind \in {"final", "cut", "plain"}
        /\ \A j \in 1..(i - 1) : pxIn.events[j].kind # "done"}

\* The response's first FINAL event holds well-formed nested JSON with a
\* non-empty answer string, and call_perplexity has ended.
WellFormedFinal ==
    /\ pxIn.phase = "done"
    /\ pxIn.status_code = 200
    /\ ReachedFinals # {}
    /\ pxIn.events[Min(ReachedFinals)].kind = "final"
    /\ pxIn.events[Min(ReachedFinals)].answer # <<>>

\* C10: when the FINAL event's answer field is well-formed nested JSON with a
\* non-empty answer string, call_perplexity returns exactly that string, and
\* it is the structured decode that produced it.
C10_StructuredDecodeFirst ==
    WellFormedFinal =>
        /\ pxOut.kind = "returned"
        /\ pxOut.answer = JStr(pxIn.events[Min(ReachedFinals)].answer)
        /\ pxOut.path = "structured"

\* C11: call_perplexity never returns a string recovered by the answer
\* pattern that has 10 characters or fewer, nor one recovered by the broader
\* pattern that has 50 characters or fewer.
C11_RecoveredTextAboveThreshold ==
    pxOut.kind = "returned" =>
        /\ pxOut.path = "regex" => Len(pxOut.answer.s) > RegexMinLen
        /\ pxOut.path = "scrape" => Len(pxOut.answer.s) > ScrapeMinLen

(***************************************************************************)
(* Further claims checked under Spec                                       *)
(***************************************************************************)

\* A step list holds a FINAL step.
HasFinalStep(steps) == \E i \in 1..Len(steps) : steps[i].step_type = "FINAL"

\* The stream POST was accepted and no message record that arrived holds a
\* FINAL step.
NoFinalArrived ==
    /\ \E i \in 1..Len(netlog) : netlog[i].op = "stream" /\ netlog[i].result = "ok"
    /\ \A i \in 1..Len(arrived) : ~HasFinalStep(arrived[i].text.steps)

\* C12: a search whose stream holds no FINAL step ends in an error, and no
\* search returns a result whose answer is the empty string.
C12_NoAnswerIsAnError ==
    /\ (call.api = "search" /\ pc = "done" /\ NoFinalArrived) => outcome.kind = "error"
    /\ outcome.kind = "result" => outcome.result.answer # ""

\* A FINAL step whose content has an 'answer' key holding nested JSON.
IsExtractableFinal(step) == step.step_type = "FINAL" /\ step.answer.enc = "json_obj"

\* The FINAL steps of the response Client.search returned, in order.
FinalsOfResponse == SelectSeq(clientResponse.value.text.steps, IsExtractableFinal)

\* C13: when the response holds several FINAL steps, the answer of the
\* result is the one of the first FINAL step that an answer can be
\* extracted from; no later FINAL step replaces it.
C13_FirstFinalWins ==
    (call.api = "search" /\ outcome.kind = "result" /\ FinalsOfResponse # <<>>) =>
        outcome.result.answer = FinalsOfResponse[1].answer.answer

\* The stream POSTs of the current call.
StreamRequests == {i \in 1..Len(netlog) : netlog[i].op = "stream"}

\* The text an error of the current call carries for a stream POST answered
\* with status_code: the status code and the body text of the answer.
ExpectedHttpErrorText(status_code) ==
    (IF call.api = "search" THEN "Search request failed: " ELSE "Stream error: ")
        \o "HTTP Error " \o ToString(status_code) \o ": " \o ResponseBody(status_code)

\* C14: a call sends at most one stream POST, and exactly one once it reads
\* or has returned from the stream; when the POST is answered with a status
\* outside 200..299 the call has failed with an error that carries the status
\* code and the body text, the POST is the call's last request, and no record
\* has been read, decoded, returned or yielded.
C14_HttpErrorFailsAtOnce ==
    /\ Cardinality(StreamRequests) <= 1
    /\ (pc = "reading" \/ outcome.kind \in {"result", "stream_end"}) =>
          Cardinality(StreamRequests) = 1
    /\ \A i \in StreamRequests :
          netlog[i].status_code \notin 200..299 =>
              /\ pc = "done"
              /\ outcome.kind = "error"
              /\ outcome.error.name = ExpectedHttpErrorText(netlog[i].status_code)
              /\ i = Len(netlog)
              /\ arrived = <<>>
              /\ delivered = <<>>
              /\ ~clientResponse.returned

C14_Witness ==
    /\ pc = "done"
    /\ call.api = "search"
    /\ netlog # <<>>
    /\ Last(netlog).op = "stream"
    /\ Last(netlog).status_code = 503
    /\ outcome.kind = "error"
    /\ outcome.error.name = "Search request failed: HTTP Error 503: Service Unavailable"

\* The positions of the end-of-stream record among the records read.
SentinelsRead == {i \in 1..Len(arrived) : arrived[i].frame = "end_of_stream"}

\* C15: the end-of-stream record is the last record the call reads: the call
\* has ended, the chunks decoded are those of the message records before it,
\* a streaming search has ended without an error, and a search has the
\* outcome its message records give: an error only when there is none or the
\* last one could not be decoded.
C15_SentinelEndsDecoding ==
    \A i \in SentinelsRead :
        /\ i = Len(arrived)
        /\ pc = "done"
        /\ Len(chunks) = Len(ArrivedMessages)
        /\ \A k \in 1..Len(chunks) : chunks[k] = ExpectedChunk(ArrivedMessages[k])
        /\ call.api = "search_stream" =>
              /\ outcome.kind = "stream_end"
              /\ Len(delivered) >= Len(ArrivedMessages)
        /\ call.api = "search" =>
              /\ outcome.kind \in {"result", "error"}
              /\ outcome.kind = "error" <=>
                    (ArrivedMessages = <<>> \/ ~Last(ArrivedMessages).wellformed)
              /\ outcome.kind = "result" =>
                    outcome.result.backend_uuid = Last(ArrivedMessages).backend_uuid

C15_Witness ==
    /\ call.api = "search"
    /\ arrived = <<RecResults, RecFinal, RecEnd>>
    /\ pc = "done"
    /\ outcome.kind = "result"
    /\ outcome.result.answer = "4"

\* The proxy's side of C15, checked under SpecProxy: the loop over the data
\* strings takes no data string after a '[DONE]', and a response whose first
\* event after the status event is '[DONE]' gives no answer.
DoneEndsExtraction ==
    /\ \A j \in 1..Len(pxIn.data) : pxIn.data[j] = DoneText => pxIn.next <= j + 1
    /\ (pxIn.phase = "done" /\ pxIn.events # <<>> /\ pxIn.events[1].kind = "done") =>
          pxOut.kind = "HTTPException"

(***************************************************************************)
(* SpecLive: Spec with the steps the call takes by itself made fair.  The  *)
(* arrival of a record, the end of the stream and the caller's             *)
(* cancellation are the upstream's and the caller's to take, and are not.  *)
(***************************************************************************)

SpecLive ==
    /\ Init
    /\ [][Next]_vars
    /\ WF_vars(GetClient)
    /\ WF_vars(ValidatePayload)
    /\ WF_vars(UploadFile)
    /\ WF_vars(OpenStream)

\* C16: a search called with a timeout ends, in a result or an error,
\* however long the upstream withholds the next record.
C16_TimedSearchTerminates ==
    (call.timeout # None) ~> (pc \in {"done", "cancelled"})

(***************************************************************************)
(* Claims about the connection, checked under Spec                         *)
(***************************************************************************)

\* C17: once a search has ended, by the end of the stream, by an error or by
\* cancellation, the connection of its stream request is not open.
C17_EndedSearchClosesConnection ==
    pc \in {"done", "cancelled"} => conn # "open"

(***************************************************************************)
(* SpecCache: concurrent search calls of the server on the global          *)
(* PerplexityAPI instance.  The calls are coroutines of one event loop:    *)
(* a step runs from one await that suspends to the next.                   *)
(***************************************************************************)

\* server.get_api: no await between the test of api_instance and its
\* assignment.
GetApi(t) ==
    /\ tasks[t].pc = "idle"
    /\ api_instance' = IF api_instance = NoClient THEN 1 ELSE api_instance
    /\ tasks' = [tasks EXCEPT ![t] = [pc |-> "has_api", api |-> api_instance',
                                      client |-> NoClient]]
    /\ UNCHANGED <<cachedClient, sessions, mainVars, payloadVars, proxyVars, storeVars, toolVars>>

\* PerplexityAPI._get_client up to the first suspension: the test of
\* self._client and, when it is None, the start of 'await Client(cookies)',
\* which constructs the session and suspends in the session request of
\* __ainit__.  self._client is still None while the call is suspended.
GetClientCheck(t) ==
    /\ tasks[t].pc = "has_api"
    /\ IF cachedClient = NoClient
       THEN /\ sessions' = sessions + 1
            /\ tasks' = [tasks EXCEPT ![t].pc = "constructing", ![t].client = sessions + 1]
       ELSE /\ sessions' = sessions
            /\ tasks' = [tasks EXCEPT ![t].pc = "searching", ![t].client = cachedClient]
    /\ UNCHANGED <<api_instance, cachedClient, mainVars, payloadVars, proxyVars, storeVars, toolVars>>

\* The await of Client(cookies) returns: self._client is assigned the new
\* client and returned.
ClientReady(t) ==
    /\ tasks[t].pc = "constructing"
    /\ cachedClient' = tasks[t].client
    /\ tasks' = [tasks EXCEPT ![t].pc = "searching", ![t].client = cachedClient']
    /\ UNCHANGED <<api_instance, sessions, mainVars, payloadVars, proxyVars, storeVars, toolVars>>

\* The search of the call is over.
SearchDone(t) ==
    /\ tasks[t].pc = "searching"
    /\ tasks' = [tasks EXCEPT ![t] = IdleTask]
    /\ UNCHANGED <<api_instance, cachedClient, sessions, mainVars, payloadVars,
                   proxyVars, storeVars, toolVars>>

NextCache ==
    \E t \in Tasks : GetApi(t) \/ GetClientCheck(t) \/ ClientReady(t) \/ SearchDone(t)

SpecCache == Init /\ [][NextCache]_vars

\* C18: under every interleaving of the calls the session client is
\* constructed at most once, and the calls that search at the same time use
\* the same client.
C18_ClientConstructedOnce ==
    /\ sessions <= 1
    /\ \A t, u \in Tasks :
          (tasks[t].pc = "searching" /\ tasks[u].pc = "searching") =>
              tasks[t].client = tasks[u].client

(***************************************************************************)
(* SpecStore: requests of the server's streaming endpoint                  *)
(* /api/search/files/stream and the continuation store they share.         *)
(***************************************************************************)

Conversations == {"A", "B"}

\* The tokens upstream gives the records of a conversation.
TokensOf(conversation) ==
    [backend_uuid |-> "uuid-" \o conversation,
     read_write_token |-> "token-" \o conversation]

\* The response records of a conversation as the chunks' raw_data hold them:
\* with both tokens, or with the backend_uuid alone.
ResponseRecords(conversation) ==
    {TokensOf(conversation), [TokensOf(conversation) EXCEPT !.read_write_token = None]}

\* Lines 1081-1093: each token of the record that is present and truthy is
\* stored under its own key; the other key keeps its value.
StoreTokens(store, original_response) ==
    [backend_uuid |-> IF original_response.backend_uuid # None
                      THEN original_response.backend_uuid ELSE store.backend_uuid,
     read_write_token |-> IF original_response.read_write_token # None
                          THEN original_response.read_write_token
                          ELSE store.read_write_token]

\* The parameters of PerplexityAPI.search_stream other than self; it takes
\* no **kwargs.
SearchStreamParameters ==
    {"query", "mode", "model", "sources", "language", "files", "follow_up",
     "incognito", "profile", "prompt_source", "query_source",
     "should_ask_for_mcp_tool_confirmation", "search_focus", "timezone"}

\* The keywords generate_stream calls api.search_stream with.
StreamEndpointKeywords ==
    {"query", "mode", "model", "sources", "files", "language", "incognito",
     "follow_up", "profile", "prompt_source", "query_source",
     "should_ask_for_mcp_tool_confirmation", "search_focus", "timezone", "space"}

\* A call binds when every keyword names a parameter; otherwise Python raises
\* TypeError before the body of the callee runs.
Binds(keywords, parameters) == keywords \subseteq parameters

\* The handler up to the return of the StreamingResponse: an unknown profile
\* is answered 400; a continue_chat request takes its follow-up from the
\* store when the store holds both tokens.
StreamRequest(r) ==
    /\ streams[r].pc = "idle"
    /\ \E conversation \in Conversations, continue_chat \in BOOLEAN,
          profile \in {None, "research", "bogus"} :
          streams' = [streams EXCEPT ![r] =
              [pc |-> IF profile # None /\ validate_profile(profile) = None
                      THEN "rejected" ELSE "streaming",
               conversation |-> conversation,
               continue_chat |-> continue_chat,
               profile |-> profile,
               follow_up |-> IF /\ continue_chat
                                /\ conversation_storage.backend_uuid # None
                                /\ conversation_storage.read_write_token # None
                             THEN conversation_storage ELSE NoTokens,
               sent |-> NoTokens,
               written |-> <<>>]]
    /\ UNCHANGED <<conversation_storage, mainVars, payloadVars, proxyVars, cacheVars, toolVars>>

\* generate_stream up to the call of api.search_stream: the status event is
\* written, then the call either binds, and the loop over its chunks begins
\* with the follow-up sent upstream, or raises TypeError.
GenerateStream(r) ==
    /\ streams[r].pc = "streaming"
    /\ streams' = [streams EXCEPT
          ![r].written = <<"status">>,
          ![r].pc = IF Binds(StreamEndpointKeywords, SearchStreamParameters)
                    THEN "in_loop" ELSE "raised",
          ![r].sent = IF Binds(StreamEndpointKeywords, SearchStreamParameters)
                      THEN streams[r].follow_up ELSE NoTokens]
    /\ UNCHANGED <<conversation_storage, mainVars, payloadVars, proxyVars, cacheVars, toolVars>>

\* The rest of generate_stream: in the loop each chunk's tokens are stored
\* and the chunk is written, then the completion status and [DONE]; an
\* exception is written as an error event.
FinishStream(r) ==
    /\ streams[r].pc \in {"in_loop", "raised"}
    /\ IF streams[r].pc = "in_loop"
       THEN /\ \E original_response \in ResponseRecords(streams[r].conversation) :
                  conversation_storage' = StoreTokens(conversation_storage, original_response)
            /\ streams' = [streams EXCEPT
                  ![r].pc = "done",
                  ![r].written = streams[r].written \o <<"chunk", "status", "[DONE]">>]
       ELSE /\ conversation_storage' = conversation_storage
            /\ streams' = [streams EXCEPT
                  ![r].pc = "done",
                  ![r].written = Append(streams[r].written, "error")]
    /\ UNCHANGED <<mainVars, payloadVars, proxyVars, cacheVars, toolVars>>

\* The response is over; the next request may come.
StreamOver(r) ==
    /\ streams[r].pc \in {"done", "rejected"}
    /\ streams' = [streams EXCEPT ![r] = IdleStream]
    /\ UNCHANGED <<conversation_storage, mainVars, payloadVars, proxyVars, cacheVars, toolVars>>

NextStore ==
    \E r \in Streams :
        StreamRequest(r) \/ GenerateStream(r) \/ FinishStream(r) \/ StreamOver(r)

SpecStore == Init /\ [][NextStore]_vars

\* C19: the store is one slot that the streams write, the last writer
\* winning: once a stream has run to its end the slot holds the tokens of one
\* of the conversations, and a continue_chat request that found tokens in
\* the slot has sent them upstream as its follow-up.
C19_SharedSlotLastWriterWins ==
    \A r \in Streams :
        streams[r].pc = "done" =>
            /\ conversation_storage \in {TokensOf(c) : c \in Conversations}
            /\ streams[r].follow_up # NoTokens => streams[r].sent = streams[r].follow_up

(***************************************************************************)
(* Claims about the usage block, checked under SpecProxy                   *)
(***************************************************************************)

\* The prompt text of the request: the prompt of /v1/completions, the
\* contents of the messages of /v1/chat/completions.
RequestPromptText ==
    IF pxIn.continue_chat THEN format_messages_as_query(pxIn.messages) ELSE pxIn.prompt

ResultsThenFinalAt(i, j) ==
    LET steps == clientResponse.value.text.steps
    IN  /\ i \in 1..Len(steps) /\ j \in 1..Len(steps) /\ i < j
        /\ steps[i].step_type = "SEARCH_RESULTS"
        /\ IsExtractableFinal(steps[j])

\* C21: for a response with a SEARCH_RESULTS step followed by a FINAL step
\* with a nested answer, the result's answer is the nested answer and its
\* sources are the results of the SEARCH_RESULTS step, in upstream order.
C21_SourcesFromSearchResults ==
    (call.api = "search" /\ outcome.kind = "result") =>
        \A i, j \in 1..Len(clientResponse.value.text.steps) :
            ResultsThenFinalAt(i, j) =>
                /\ outcome.result.answer = clientResponse.value.text.steps[j].answer.answer
                /\ outcome.result.sources = clientResponse.value.text.steps[i].web_results

(***************************************************************************)
(* The MCP tools: perplexity_mcp_server/tools (the package) and            *)
(* simple_perplexity_mcp.py (the single file)                              *)
(***************************************************************************)

Facades == {"package", "simple"}
McpTools == {"search_perplexity", "chat_with_perplexity", "analyze_file_with_perplexity"}

\* base.VALID_MODELS and the valid_models list of simple_perplexity_mcp
VALID_MODELS(facade) ==
    IF facade = "package"
    THEN {"claude45sonnet", "claude45sonnetthinking", "gpt5", "gpt5thinking", "sonar"}
    ELSE {"claude45sonnet", "claude45sonnetthinking", "gpt5", "gpt5thinking",
          "experimental"}

REQUIRED_MODE == "pro"

\* Python's truth value of an Optional[str] argument.
Falsy(x) == x = None \/ x = ""

McpModelAccepted_any(facade, model) == TRUE

\* validate_model: the model is given and is in the list
McpModelAccepted(facade, model) == ~Falsy(model) /\ model \in VALID_MODELS(facade)

\* The package's utils.profile_validator.validate_profile is
\* SearchProfile(profile_name); the single file imports validate_profile of
\* perplexity_profiles, which lowers the name first.
McpValidateProfile(facade, profile) ==
    IF facade = "package"
    THEN (IF profile \in SearchProfile THEN profile ELSE None)
    ELSE validate_profile(profile)

\* The parameters of PerplexityAPI.search.
SearchParameters ==
    {"query", "mode", "model", "sources", "language", "files", "follow_up",
     "incognito", "timeout", "raw_response", "profile", "prompt_source",
     "query_source", "should_ask_for_mcp_tool_confirmation", "search_focus",
     "timezone"}

\* The keywords a tool calls api.search with.
McpSearchKeywords(facade, tool) ==
    LET common == {"query", "mode", "sources", "language", "model", "profile"}
        context == {"prompt_source", "query_source",
                    "should_ask_for_mcp_tool_confirmation", "search_focus", "timezone"}
    IN  IF facade = "simple" THEN common
        ELSE IF tool = "analyze_file_with_perplexity" THEN common \cup context \cup {"space"}
        ELSE common \cup context

McpModes == {"pro", "auto", ""}
McpModels == {None, "", "claude45sonnet", "sonar", "experimental", "bogus"}
McpProfiles == {None, "", "research", "SECURITY", "bogus"}

\* An argument the caller leaves out takes the default of the signature.
Omitted == "<omitted>"
McpDefault(tool, parameter) ==
    CASE parameter = "mode" -> "pro"
      [] parameter = "model" -> "claude45sonnet"
      [] parameter = "profile" ->
            IF tool = "analyze_file_with_perplexity" THEN "code_analysis" ELSE "research"
Argument(tool, parameter, given) ==
    IF given = Omitted THEN McpDefault(tool, parameter) ELSE given

ToolError(message) == [kind |-> "error", message |-> message]
ToolAnswer == [kind |-> "answer", message |-> "4"]

\* A tool is called.
McpCall ==
    /\ mcp.pc = "idle"
    /\ \E facade \in Facades, tool \in McpTools, mode \in McpModes \cup {Omitted},
          model \in McpModels \cup {Omitted}, profile \in McpProfiles \cup {Omitted} :
          mcp' = [IdleMcp EXCEPT !.pc = "validate_mode", !.facade = facade,
                                 !.tool = tool,
                                 !.mode = Argument(tool, "mode", mode),
                                 !.model = Argument(tool, "model", model),
                                 !.profile = Argument(tool, "profile", profile)]
    /\ UNCHANGED exceptMcp

\* validate_mode
McpValidateMode ==
    /\ mcp.pc = "validate_mode"
    /\ mcp' = IF mcp.mode # REQUIRED_MODE
              THEN [mcp EXCEPT !.pc = "returned",
                               !.response = ToolError("Only 'pro' mode is supported")]
              ELSE [mcp EXCEPT !.pc = "validate_model"]
    /\ UNCHANGED exceptMcp

\* validate_model
McpValidateModel ==
    /\ mcp.pc = "validate_model"
    /\ mcp' = IF McpModelAccepted(mcp.facade, mcp.model)
              THEN [mcp EXCEPT !.pc = "validate_profile"]
              ELSE [mcp EXCEPT !.pc = "returned",
                               !.response =
                                  ToolError(IF Falsy(mcp.model) THEN "Model is required"
                                            ELSE "Invalid model")]
    /\ UNCHANGED exceptMcp

\* if not profile: ...; search_profile = validate_profile(profile)
McpCheckProfile ==
    /\ mcp.pc = "validate_profile"
    /\ mcp' = IF Falsy(mcp.profile)
              THEN [mcp EXCEPT !.pc = "returned",
                               !.response = ToolError("Profile is required")]
              ELSE IF McpValidateProfile(mcp.facade, mcp.profile) = None
              THEN [mcp EXCEPT !.pc = "returned",
                               !.response = ToolError("Invalid profile")]
              ELSE [mcp EXCEPT !.pc = "search",
                               !.search_profile =
                                  McpValidateProfile(mcp.facade, mcp.profile)]
    /\ UNCHANGED exceptMcp

\* await api.search(...) inside the tool's try: a call that does not bind
\* raises TypeError before the search starts; a search the Query Builder
\* rejects or the upstream fails raises PerplexityAPIError; every exception
\* becomes the tool's error response.
McpSearch ==
    /\ mcp.pc = "search"
    /\ IF ~Binds(McpSearchKeywords(mcp.facade, mcp.tool), SearchParameters)
       THEN mcp' = [mcp EXCEPT !.pc = "returned",
                               !.response = ToolError("unexpected keyword argument")]
       ELSE IF ValidateArgs(mcp.mode, mcp.model, <<"web">>) # NoError
       THEN mcp' = [mcp EXCEPT !.pc = "returned", !.searches = @ + 1,
                               !.response = ToolError("Search failed: Invalid model")]
       ELSE \E response \in {ToolAnswer, ToolError("Search failed: upstream")} :
               mcp' = [mcp EXCEPT !.pc = "returned", !.searches = @ + 1,
                                  !.response = response]
    /\ UNCHANGED exceptMcp

\* The tool has returned; the next call may start.
McpReturn ==
    /\ mcp.pc = "returned"
    /\ mcp' = IdleMcp
    /\ UNCHANGED exceptMcp

NextMcp ==
    McpCall \/ McpValidateMode \/ McpValidateModel \/ McpCheckProfile \/ McpSearch
        \/ McpReturn

SpecMcp == Init /\ [][NextMcp]_vars

\* The name is no profile name in any letter case.
NamesNoProfile(profile) == Lower(profile) \notin SearchProfile

MaxClock == 3

\* _parse_stream_chunk with its timestamp: timestamp = time.time() is read
\* once per call and given to every StreamChunk of the call.
StreamChunksAt(chunk, timestamp) ==
    [i \in 1..Len(_parse_stream_chunk(chunk)) |->
        [step_type |-> _parse_stream_chunk(chunk)[i].step_type,
         content |-> _parse_stream_chunk(chunk)[i].content,
         timestamp |-> timestamp,
         raw_data |-> chunk]]

\* One pass of a raw record through both decoders at the time now; an error
\* chunk is not projected (PerplexityAPI.search_stream raises on it).
Decoding(r, now) ==
    [done |-> TRUE,
     chunk |-> DecodeRecord(r),
     stream_chunks |-> IF DecodeRecord(r).error # None THEN <<>>
                       ELSE StreamChunksAt(DecodeRecord(r), now)]

\* Time passes.
Tick ==
    /\ decoder.clock < MaxClock
    /\ decoder' = [decoder EXCEPT !.clock = @ + 1]
    /\ UNCHANGED exceptDecoder

\* A raw "event: message" record is taken up.
RecordArrives ==
    /\ decoder.record = RecEnd
    /\ \E r \in {u \in UpstreamRecords : u.frame = "message"} :
          decoder' = [decoder EXCEPT !.record = r]
    /\ UNCHANGED exceptDecoder

DecodeFirst ==
    /\ decoder.record # RecEnd
    /\ ~decoder.first.done
    /\ decoder' = [decoder EXCEPT !.first = Decoding(decoder.record, decoder.clock)]
    /\ UNCHANGED exceptDecoder

DecodeSecond ==
    /\ decoder.first.done
    /\ ~decoder.second.done
    /\ decoder' = [decoder EXCEPT !.second = Decoding(decoder.record, decoder.clock)]
    /\ UNCHANGED exceptDecoder

\* The next record is taken up; the clock keeps its value.
DecodeNext ==
    /\ decoder.second.done
    /\ decoder' = [IdleDecoder EXCEPT !.clock = decoder.clock]
    /\ UNCHANGED exceptDecoder

NextDecode == Tick \/ RecordArrives \/ DecodeFirst \/ DecodeSecond \/ DecodeNext

SpecDecode == Init /\ [][NextDecode]_vars

\* C23: the same raw record decoded twice gives structurally equal results,
\* the timestamp field of the StreamChunks included.
C23_DecodingIsIdempotent ==
    (decoder.first.done /\ decoder.second.done) => decoder.first = decoder.second

\* The part of C23 the code keeps: the transport decoder's chunk, and every
\* field of the StreamChunks but the timestamp, are the same in both passes.
DecodedAlikeButTimestamp ==
    (decoder.first.done /\ decoder.second.done) =>
        /\ decoder.first.chunk = decoder.second.chunk
        /\ Len(decoder.first.stream_chunks) = Len(decoder.second.stream_chunks)
        /\ \A i \in 1..Len(decoder.first.stream_chunks) :
              [decoder.first.stream_chunks[i] EXCEPT !.timestamp = 0]
                 = [decoder.second.stream_chunks[i] EXCEPT !.timestamp = 0]

(***************************************************************************)
(* server.api_search: the REST endpoint POST /api/search                   *)
(***************************************************************************)

\* The fields of the request's FollowUpData.
FollowUpDataFields == {"last_backend_uuid", "read_write_token", "attachments"}

\* The attributes api_search reads of request.follow_up to build follow_up_dict.
FollowUpAttributesRead == {"backend_uuid", "attachments"}

\* The keywords api_search calls api.search with.
ApiSearchKeywords ==
    {"query", "mode", "model", "sources", "language", "incognito", "raw_response",
     "follow_up", "profile", "prompt_source", "query_source",
     "should_ask_for_mcp_tool_confirmation", "search_focus", "timezone", "space"}

RestFollowUps ==
    {NoFollowUp}
    \cup {[present |-> TRUE, backend_uuid |-> u, read_write_token |-> t,
           attachments |-> a] :
            u \in {"uuid-1", "uuid-2"}, t \in {"token-1", "token-2"},
            a \in {<<>>, <<"s3_object_url:old.txt">>}}

RestResponse(status_code, detail) == [status_code |-> status_code, detail |-> detail]

\* A request arrives; follow_up holds the values of the body's follow_up
\* object (backend_uuid is the value of its last_backend_uuid field).
RestRequest ==
    /\ apiSearch.pc = "idle"
    /\ \E mode \in {"auto", "pro"}, model_preference \in {None, "sonar"},
          profile \in {None, "research", "bogus"}, follow_up \in RestFollowUps :
          apiSearch' = [IdleRest EXCEPT !.pc = "follow_up", !.mode = mode,
                                        !.model_preference = model_preference,
                                        !.profile = profile, !.follow_up = follow_up]
    /\ UNCHANGED exceptRest

\* follow_up_dict: reading an attribute the FollowUpData model does not have
\* raises AttributeError, which the handler's except Exception answers 500.
\* The dict has no 'read_write_token' key.
RestFollowUp ==
    /\ apiSearch.pc = "follow_up"
    /\ apiSearch' =
          IF ~apiSearch.follow_up.present
          THEN [apiSearch EXCEPT !.pc = "profile"]
          ELSE IF ~(FollowUpAttributesRead \subseteq FollowUpDataFields)
          THEN [apiSearch EXCEPT !.pc = "responded",
                                 !.response = RestResponse(500, "AttributeError")]
          ELSE [apiSearch EXCEPT !.pc = "profile",
                                 !.follow_up_dict =
                                    [apiSearch.follow_up EXCEPT !.read_write_token = None]]
    /\ UNCHANGED exceptRest

\* The HTTPException(400) of an unknown profile is raised inside the try and
\* is no PerplexityAPIError: except Exception turns it into a 500.
RestProfile ==
    /\ apiSearch.pc = "profile"
    /\ apiSearch' =
          IF Falsy(apiSearch.profile)
          THEN [apiSearch EXCEPT !.pc = "search"]
          ELSE IF validate_profile(apiSearch.profile) = None
          THEN [apiSearch EXCEPT !.pc = "responded",
                                 !.response = RestResponse(500, "Invalid profile")]
          ELSE [apiSearch EXCEPT !.pc = "search",
                                 !.search_profile = validate_profile(apiSearch.profile)]
    /\ UNCHANGED exceptRest

\* await api.search(..., space=request.space): a call that does not bind
\* raises TypeError (500); otherwise the payload is built of the arguments and
\* a PerplexityAPIError is answered 400.
RestSearch ==
    /\ apiSearch.pc = "search"
    /\ apiSearch' =
          IF ~Binds(ApiSearchKeywords, SearchParameters)
          THEN [apiSearch EXCEPT !.pc = "responded",
                                 !.response = RestResponse(500, "TypeError")]
          ELSE IF ValidateArgs(apiSearch.mode, apiSearch.model_preference, <<"web">>)
                     # NoError
          THEN [apiSearch EXCEPT !.pc = "responded",
                                 !.response = RestResponse(400, "API Error")]
          ELSE [apiSearch EXCEPT !.pc = "responded",
                                 !.payload =
                                    BuildPayload("2+2", apiSearch.mode,
                                                 apiSearch.model_preference, <<"web">>,
                                                 <<>>, apiSearch.follow_up_dict),
                                 !.response = RestResponse(200, "")]
    /\ UNCHANGED exceptRest

RestDone ==
    /\ apiSearch.pc = "responded"
    /\ apiSearch' = IdleRest
    /\ UNCHANGED exceptRest

NextRest == RestRequest \/ RestFollowUp \/ RestProfile \/ RestSearch \/ RestDone

SpecRest == Init /\ [][NextRest]_vars

\* C24: a request of POST /api/search that supplies a follow-up (and whose
\* other arguments are acceptable) has, when it is answered, built a payload
\* whose last_backend_uuid and read_write_token are the follow-up's and whose
\* attachments end with the follow-up's.
C24_FollowUpReplaysBothTokens ==
    (/\ apiSearch.pc = "responded"
     /\ apiSearch.follow_up.present
     /\ (Falsy(apiSearch.profile) \/ validate_profile(apiSearch.profile) # None)
     /\ ValidateArgs(apiSearch.mode, apiSearch.model_preference, <<"web">>) = NoError)
    => /\ apiSearch.payload.last_backend_uuid = apiSearch.follow_up.backend_uuid
       /\ apiSearch.payload.read_write_token = apiSearch.follow_up.read_write_token
       /\ apiSearch.payload.attachments = apiSearch.follow_up.attachments

\* The part of C24 that is _create_payload's own, under SpecPayload: the
\* payload it returns carries the tokens and attachments of the follow_up it
\* is given, and None tokens when it is given none.
PayloadCarriesFollowUp ==
    (pbOut.done /\ pbOut.error = NoError) =>
        /\ pbOut.payload.last_backend_uuid = pbIn.follow_up.backend_uuid
        /\ pbOut.payload.read_write_token = pbIn.follow_up.read_write_token
        /\ pbOut.payload.attachments = pbIn.follow_up.attachments

(***************************************************************************)
(* The OpenAI-style proxies s2.py and litellm_proxy.py: parse_model and    *)
(* the form posted to the search server                                    *)
(***************************************************************************)

Proxies == {"s2", "litellm_proxy"}
Endpoints == {"/v1/completions", "/v1/chat/completions"}

\* The ids s2's /v1/models lists.
list_models ==
    {"pro-sonar", "pro-claude37sonnetthinking", "pro-grok4", "pro-claude45sonnet",
     "pro-claude45sonnetthinking", "pro-gpt5", "pro-gpt5thinking", "deep-research",
     "lab-beta"}

\* The model strings of the requests.
RequestModels == list_models \cup {"sonar", "gpt-4o", "reasoning-r1", "bogus"}

\* The places of "-" in the model string.
DashAt(model) == {i \in 1..Len(model) : SubSeq(model, i, i) = "-"}

\* parse_model: model.split("-", maxsplit=1); two parts are the mode and the
\* model preference, s2 mapping the modes "deep" and "lab"; one part is the
\* model preference of mode "pro".
parse_model(proxy, model) ==
    IF DashAt(model) = {} THEN <<"pro", model>>
    ELSE LET i == CHOOSE d \in DashAt(model) : \A e \in DashAt(model) : d <= e
             mode == SubSeq(model, 1, i - 1)
             model_pref == SubSeq(model, i + 1, Len(model))
         IN  IF proxy = "s2" /\ mode = "deep" THEN <<"deep research", "pplx_alpha">>
             ELSE IF proxy = "s2" /\ mode = "lab" THEN <<"deep lab", "pplx_beta">>
             ELSE <<mode, model_pref>>

\* The continue_chat argument the endpoint gives call_perplexity.
EndpointContinueChat(endpoint) == endpoint = "/v1/chat/completions"

\* form_data["continue_chat"]: s2 posts str(continue_chat).lower();
\* litellm_proxy posts the constant True whatever its argument.
FormContinueChat(proxy, continue_chat) ==
    IF proxy = "s2" THEN (IF continue_chat THEN "true" ELSE "false") ELSE "true"

\* A request arrives at an endpoint.
ForwardRequest ==
    /\ forward.pc = "idle"
    /\ \E proxy \in Proxies, endpoint \in Endpoints, model \in RequestModels :
          forward' = [IdleForward EXCEPT !.pc = "parse", !.proxy = proxy,
                                         !.endpoint = endpoint, !.model = model]
    /\ UNCHANGED exceptForward

\* mode, model_preference = parse_model(request.model)
ForwardParse ==
    /\ forward.pc = "parse"
    /\ forward' = [forward EXCEPT !.pc = "post",
                                  !.mode = parse_model(forward.proxy, forward.model)[1],
                                  !.model_preference =
                                     parse_model(forward.proxy, forward.model)[2]]
    /\ UNCHANGED exceptForward

\* call_perplexity posts the form; rejected tells whether the Query Builder
\* of the search server rejects the mode and model of the form.
ForwardPost ==
    /\ forward.pc = "post"
    /\ forward' = [forward EXCEPT
                      !.pc = "posted",
                      !.continue_chat =
                         FormContinueChat(forward.proxy,
                                          EndpointContinueChat(forward.endpoint)),
                      !.rejected =
                         ValidateArgs(forward.mode, forward.model_preference,
                                      <<"web">>) # NoError]
    /\ UNCHANGED exceptForward

ForwardDone ==
    /\ forward.pc = "posted"
    /\ forward' = IdleForward
    /\ UNCHANGED exceptForward

NextForward == ForwardRequest \/ ForwardParse \/ ForwardPost \/ ForwardDone

SpecForward == Init /\ [][NextForward]_vars

\* C25: the form of a /v1/completions request carries continue_chat false
\* and the form of a /v1/chat/completions request continue_chat true.
C25_CompletionsNeverContinue ==
    forward.pc = "posted" =>
        forward.continue_chat
            = (IF forward.endpoint = "/v1/completions" THEN "false" ELSE "true")

\* What holds of s2 alone.
S2CompletionsNeverContinue ==
    (forward.pc = "posted" /\ forward.proxy = "s2") =>
        forward.continue_chat
            = (IF forward.endpoint = "/v1/completions" THEN "false" ELSE "true")

\* The modes of the Query Builder's table.
QueryBuilderModes == {model_preference_map[i][1] : i \in 1..Len(model_preference_map)}

\* The text of the request's model string before its first "-", or the
\* whole string when it has none.
PrefixOf(model) ==
    IF DashAt(model) = {} THEN model
    ELSE SubSeq(model, 1, (CHOOSE d \in DashAt(model) : \A e \in DashAt(model) : d <= e) - 1)

\* What C26 says parse_model yields for a model string.
DescribedParse(model) ==
    IF DashAt(model) # {} /\ PrefixOf(model) = "deep" THEN <<"deep research", "pplx_alpha">>
    ELSE IF DashAt(model) # {} /\ PrefixOf(model) = "lab" THEN <<"deep lab", "pplx_beta">>
    ELSE IF DashAt(model) # {} /\ PrefixOf(model) \in QueryBuilderModes
    THEN <<PrefixOf(model), SubSeq(model, Len(PrefixOf(model)) + 2, Len(model))>>
    ELSE <<"pro", model>>

\* C26: the mode parse_model yields is a mode of the Query Builder, and mode
\* and model preference are as described: the prefix and the rest for a
\* mode prefix, the deep and lab modes mapped, and 'pro' with the whole name
\* for a name without a mode prefix, a hyphen in it or not.
C26_ParseModelYieldsBuilderMode ==
    forward.pc = "post" =>
        /\ forward.mode \in QueryBuilderModes
        /\ <<forward.mode, forward.model_preference>> = DescribedParse(forward.model)

\* What holds: a name without any hyphen, and in s2 a name with a mode
\* prefix, are parsed as described.
ParsedAsDescribedWithPrefix ==
    (/\ forward.pc = "post"
     /\ \/ DashAt(forward.model) = {}
        \/ /\ forward.proxy = "s2"
           /\ PrefixOf(forward.model) \in QueryBuilderModes \cup {"deep", "lab"})
    => <<forward.mode, forward.model_preference>> = DescribedParse(forward.model)

(***************************************************************************)
(* The model lists of the facades against the Query Builder's table        *)
(***************************************************************************)

\* C27: a model name the validation of an MCP tool accepts for mode 'pro' is
\* a key of the Query Builder's table for that mode: a tool call that passed
\* the tool's validation and started a search is not rejected by the Query
\* Builder for its model.
C27_FacadeModelsAreBuilderModels ==
    (mcp.pc = "returned" /\ mcp.searches > 0) =>
        /\ ModelInMap(mcp.mode, mcp.model)
        /\ mcp.response # ToolError("Search failed: Invalid model")

\* What holds: the package's list, and the ids s2 lists under /v1/models
\* once parsed, are keys of the table.
AdvertisedModelsAccepted ==
    /\ \A model \in VALID_MODELS("package") : ModelInMap("pro", model)
    /\ \A id \in list_models :
          ModelInMap(parse_model("s2", id)[1], parse_model("s2", id)[2])
    /\ (forward.pc = "posted" /\ forward.proxy = "s2" /\ forward.model \in list_models)
          => ~forward.rejected

(***************************************************************************)
(* The pair of tokens in the continuation store, under SpecStore           *)
(***************************************************************************)

\* C28: when the store holds both a backend_uuid and a read_write_token, the
\* two are the tokens of one response record.
C28_StoredPairFromOneRecord ==
    (conversation_storage.backend_uuid # None /\ conversation_storage.read_write_token # None)
    => \E c \in Conversations : conversation_storage = TokensOf(c)

\* No stream gets as far as the loop that stores tokens: the store never
\* holds a token.
StoreNeverWritten ==
    /\ conversation_storage = NoTokens
    /\ \A r \in Streams : streams[r].pc # "in_loop"

(***************************************************************************)
(* A record that fails to decode after the FINAL record, under Spec        *)
(***************************************************************************)

\* The message record decodes to steps that hold a FINAL step with a
\* non-empty nested answer.
HoldsFinalAnswer(r) ==
    /\ r.wellformed
    /\ r.text.t = "json_list"
    /\ \E k \in 1..Len(r.text.steps) :
          IsExtractableFinal(r.text.steps[k]) /\ r.text.steps[k].answer.answer # ""

\* A message record that fails to decode arrived after one with a FINAL answer.
BadAfterFinal ==
    \E i, j \in 1..Len(ArrivedMessages) :
        i < j /\ HoldsFinalAnswer(ArrivedMessages[i]) /\ ~ArrivedMessages[j].wellformed

\* C29: a search in whose stream a record with a FINAL answer was followed by
\* a record that failed to decode returns a result carrying a FINAL answer
\* of the stream; the placeholder of the late record is not its outcome.
C29_LateDecodeErrorNotTerminal ==
    (call.api = "search" /\ pc = "done" /\ BadAfterFinal) =>
        /\ outcome.kind = "result"
        /\ \E i \in 1..Len(ArrivedMessages) :
              /\ HoldsFinalAnswer(ArrivedMessages[i])
              /\ \E k \in 1..Len(ArrivedMessages[i].text.steps) :
                    /\ IsExtractableFinal(ArrivedMessages[i].text.steps[k])
                    /\ outcome.result.answer = ArrivedMessages[i].text.steps[k].answer.answer

(***************************************************************************)
(* webhook_mcp.py: WebhookClient.call_webhook and webhook_and_analyze      *)
(***************************************************************************)

\* WebhookConfig: WEBHOOK_MAX_RETRIES and WEBHOOK_RETRY_DELAY, their defaults.
max_retries == 3
retry_delay == 1

RetryDelayFor_flat(attempt) == retry_delay

\* asyncio.sleep(config.retry_delay * (2 ** attempt))
RetryDelayFor(attempt) == retry_delay * (2 ^ attempt)

WebhookMethods == {"GET", "POST"}
\* The kinds of request body: none, a dict, a string.
WebhookBodies == {None, "dict", "str"}
\* The status codes a webhook answers with.
WebhookStatuses == {200, 404, 500}

\* The lines before the loop: a dict body is dumped as JSON and its
\* Content-Type header set; attempt 0 begins.
WebhookCall ==
    /\ webhook.pc = "idle"
    /\ \E method \in WebhookMethods, body \in WebhookBodies :
          webhook' = [IdleWebhook EXCEPT
                         !.pc = "attempt", !.method = method, !.body = body,
                         !.content_type = IF body = "dict" THEN "application/json"
                                          ELSE None]
    /\ UNCHANGED exceptWebhook

\* self.client.request(...) returns a response: it is returned at once,
\* whatever its status.
WebhookResponds ==
    /\ webhook.pc = "attempt"
    /\ \E status_code \in WebhookStatuses :
          webhook' = [webhook EXCEPT
                         !.pc = "returned", !.requests = @ + 1,
                         !.response = [status_code |-> status_code, error |-> None]]
    /\ UNCHANGED exceptWebhook

\* self.client.request(...) raises: last_error is kept, and the loop breaks
\* on the final attempt or goes on to sleep.
WebhookFails ==
    /\ webhook.pc = "attempt"
    /\ webhook' = [webhook EXCEPT
                      !.pc = IF webhook.attempt = max_retries THEN "exhausted" ELSE "sleep",
                      !.requests = @ + 1,
                      !.last_error = "ConnectError"]
    /\ UNCHANGED exceptWebhook

\* await asyncio.sleep(...), then the next attempt of the for loop.
WebhookSleep ==
    /\ webhook.pc = "sleep"
    /\ webhook' = [webhook EXCEPT
                      !.pc = "attempt",
                      !.sleeps = Append(@, RetryDelayFor(webhook.attempt)),
                      !.attempt = @ + 1]
    /\ UNCHANGED exceptWebhook

\* After the loop: the error response.
WebhookGiveUp ==
    /\ webhook.pc = "exhausted"
    /\ webhook' = [webhook EXCEPT
                      !.pc = "returned",
                      !.response = [status_code |-> 0,
                                    error |-> "Request failed after "
                                              \o ToString(max_retries + 1)
                                              \o " attempts: " \o webhook.last_error]]
    /\ UNCHANGED exceptWebhook

\* webhook_and_analyze: the analysis runs if status_code > 0.
WebhookAnalyze ==
    /\ webhook.pc = "returned"
    /\ webhook' = [webhook EXCEPT !.pc = "analysed",
                                  !.analysed = webhook.response.status_code > 0]
    /\ UNCHANGED exceptWebhook

WebhookDone ==
    /\ webhook.pc = "analysed"
    /\ webhook' = IdleWebhook
    /\ UNCHANGED exceptWebhook

NextWebhook ==
    WebhookCall \/ WebhookResponds \/ WebhookFails \/ WebhookSleep \/ WebhookGiveUp
        \/ WebhookAnalyze \/ WebhookDone

SpecWebhook == Init /\ [][NextWebhook]_vars

\* C30: call_webhook makes at most max_retries + 1 requests; a response
\* received is returned with no further request; the waits between failed
\* attempts are retry_delay * 2^attempt, with none after the last; after
\* max_retries + 1 failures the response has status_code 0 and an error;
\* webhook_and_analyze analyses only a response whose status_code is > 0.
C30_WebhookRetriesAreBounded ==
    /\ webhook.requests <= max_retries + 1
    /\ \A i \in 1..Len(webhook.sleeps) : webhook.sleeps[i] = retry_delay * (2 ^ (i - 1))
    /\ webhook.pc \in {"returned", "analysed"} =>
          /\ Len(webhook.sleeps) = webhook.requests - 1
          /\ IF webhook.response.status_code > 0
             THEN webhook.response.error = None
             ELSE /\ webhook.response.status_code = 0
                  /\ webhook.requests = max_retries + 1
                  /\ webhook.response.error # None
    /\ webhook.pc = "analysed" => (webhook.analysed <=> webhook.response.status_code > 0)

C30_Witness ==
    /\ webhook.pc = "analysed"
    /\ webhook.requests = max_retries + 1
    /\ webhook.sleeps = <<1, 2, 4>>
    /\ webhook.response.status_code = 0
    /\ ~webhook.analysed

\* A response received on a retry: the call returned it and it was analysed.
WebhookRetrySucceeds ==
    /\ webhook.pc = "analysed"
    /\ webhook.requests = 3
    /\ webhook.sleeps = <<1, 2>>
    /\ webhook.response.status_code = 500
    /\ webhook.analysed

====
